---- MODULE Spec2Model ----
(***************************************************************************)
(* A model of the Houdini Swap client SDK (houdiniswap/client.py):         *)
(*   - the request engine HoudiniSwapClient._request (retry loop),         *)
(*   - the TTL cache of get_cex_tokens / get_dex_tokens and clear_cache,   *)
(*   - the fan-out helper execute_parallel,                                *)
(*   - the polling helpers wait_for_status and poll_until_finished,        *)
(*   - the paginated generator iter_dex_tokens / get_all_dex_tokens,       *)
(*   - close and the context manager,                                      *)
(*   - the input validation of the typed operations.                       *)
(***************************************************************************)
EXTENDS Integers, Sequences, FiniteSets, TLC

VARIABLES
    max_retries,     \* client.max_retries
    pc,              \* position of the _request call: "idle", "loop", "done"
    attempt,         \* loop variable of `for attempt in range(max_retries + 1)`
    calls,           \* number of session.request invocations of the current call
    sleeps,          \* the waits of the current call: the arguments of the
                     \* time.sleep calls that returned
    trace,           \* kind and status of every transport outcome of the call
    lastOut,         \* the outcome of the latest session.request invocation
    last_exception,  \* the invocation whose exception last_exception holds (0: None)
    result,          \* how the call ended (a return value or a raised error)
    cache_enabled,   \* client.cache_enabled
    cache_ttl,       \* client.cache_ttl, in seconds
    token_cache,     \* client._token_cache: key -> (data, timestamp)
    now,             \* time.time(), in seconds
    fetches,         \* number of token lists decoded so far (names the list objects)
    last,            \* the latest cache operation and what it did
    requests,        \* execute_parallel: what each thunk does, "ret" or "exc"
    max_workers,     \* execute_parallel: the max_workers argument
    mainpc,          \* execute_parallel: "idle", "submit", "collect", "returned"
    tstate,          \* per thunk: "new", "queued", "running", "finished"
    runs,            \* per thunk: how many times a worker started it
    threads,         \* number of worker threads of the pool
    results,         \* the results list
    order,           \* the indexes as_completed has yielded, in that order
    poll_op,         \* the polling helper in progress, or "none"
    target_status,   \* wait_for_status: the target_status argument
    timeout,         \* the timeout argument of the polling helper, in seconds
    poll_interval,   \* the poll_interval argument, in seconds
    pollpc,          \* position of the polling helper: "idle", "loop", "done"
    polls,           \* number of get_status calls of the current polling call
    elapsed,         \* time.time() - start_time
    status,          \* status.status of the latest fetched Status
    psleeps,         \* the arguments of the time.sleep calls of the polling call
    presult,         \* how the polling call ended
    iterpc,          \* the generator: "none", "created", "yielded", "done", "raised"
    consumer,        \* who consumes it: "for" (a loop) or "list" (get_all_dex_tokens)
    gen_page,        \* generator frame: page (0 before the body runs)
    gen_page_size,   \* generator frame: page_size
    gen_tokens,      \* generator frame: response.tokens of the current page
    gen_pos,         \* generator frame: how many tokens of the page were yielded
    gen_count,       \* generator frame: response.count of the current page
    fetched,         \* the pages this generator fetched, in order
    yielded,         \* the tokens this generator handed to its consumer, in order
    max_count,       \* the largest count reported to this generator
    iterations,      \* number of generators made so far
    prev,            \* where the previous generator was when this one was made
    consistent,      \* whether the server's pages and count agree
    server_total,    \* the token count N of a consistent server
    closed_slot,     \* the slot _closed: "unset" or "True"
    session_closed,  \* the attribute session.closed
    session_close_calls, \* number of session.close() invocations
    with_depth,      \* number of with blocks on the client that are open
    with_result,     \* how the latest with statement ended
    lifelog,         \* the close, __enter__ and __exit__ calls so far
    lastcall,        \* the latest typed operation: its inputs and how it ended
    lastdecode,      \* the latest decoding of a response body by a typed operation
    client,          \* the latest call of the constructor and the object it made
    lastread,        \* the latest read of an attribute of that object
    body_op,         \* the operation whose body _request is sending, "none" or "done"
    payload,         \* the identity of the payload the caller took the route from
    route_arg,       \* the route argument of that operation
    json_data,       \* the map passed to _request as json_data
    safe_json_data,  \* the copy _request works on
    sent,            \* what each session.request of the call serialised
    heap,            \* the members of the route payloads
    wire,            \* the latest call: its method, its operation, the latest answer
    reader,          \* per thunk that calls get_cex_tokens: where the call is
    network_calls,   \* number of GET /tokens transport calls made by the thunks
    builder,         \* the fields of an ExchangeBuilder
    lastbuild        \* the latest call on that builder

reqVars ==
    <<max_retries, pc, attempt, calls, sleeps, trace, lastOut, last_exception, result>>

cacheVars == <<cache_enabled, cache_ttl, token_cache, now, fetches, last>>

parVars == <<requests, max_workers, mainpc, tstate, runs, threads, results, order>>

pollVars ==
    <<poll_op, target_status, timeout, poll_interval, pollpc, polls, elapsed,
      status, psleeps, presult>>

iterVars ==
    <<iterpc, consumer, gen_page, gen_page_size, gen_tokens, gen_pos, gen_count,
      fetched, yielded, max_count, iterations, prev, consistent, server_total>>

lifeVars ==
    <<closed_slot, session_closed, session_close_calls, with_depth, with_result,
      lifelog>>

typedVars == <<lastcall>>

decodeVars == <<lastdecode>>

credVars == <<client, lastread>>

bodyVars == <<body_op, payload, route_arg, json_data, safe_json_data, sent, heap, wire>>

builderVars == <<builder, lastbuild>>

raceVars == <<reader, network_calls>>

dataVars == <<decodeVars, credVars, bodyVars, builderVars, raceVars>>

helperVars == <<pollVars, iterVars, lifeVars, typedVars, dataVars>>

\* what each helper leaves alone
exceptPoll == <<reqVars, cacheVars, parVars, iterVars, lifeVars, typedVars, dataVars>>

exceptIter == <<reqVars, cacheVars, parVars, pollVars, lifeVars, typedVars, dataVars>>

exceptLife == <<reqVars, cacheVars, parVars, pollVars, iterVars, typedVars, dataVars>>

exceptTyped == <<reqVars, cacheVars, parVars, pollVars, iterVars, lifeVars, dataVars>>

exceptData == <<reqVars, cacheVars, parVars, pollVars, iterVars, lifeVars, typedVars>>

exceptDecode == <<exceptData, credVars, bodyVars, builderVars, raceVars>>

exceptCred == <<exceptData, decodeVars, bodyVars, builderVars, raceVars>>

exceptBody == <<exceptData, decodeVars, credVars, builderVars, raceVars>>

exceptBuilder == <<exceptData, decodeVars, credVars, bodyVars, raceVars>>

exceptRace ==
    <<reqVars, pollVars, iterVars, lifeVars, typedVars, decodeVars, credVars,
      bodyVars, builderVars>>

vars == <<reqVars, cacheVars, parVars, helperVars>>

(***************************************************************************)
(* Bounds of the model.                                                    *)
(***************************************************************************)
MaxRetries == 2          \* max_retries ranges over -1 .. MaxRetries
RetryAfterSeconds == 7   \* the value of a parseable Retry-After header
MaxTTL == 2              \* cache_ttl is MaxTTL - 1 or MaxTTL
MaxTime == 2             \* the clock runs from 0 to MaxTime
MaxFetches == 2          \* at most MaxFetches token lists are decoded
MaxThunks == 3           \* execute_parallel gets 0 .. MaxThunks thunks
MaxWorkers == 2          \* max_workers ranges over 1 .. MaxWorkers
MaxTimeout == 2          \* timeout ranges over -MaxTimeout .. MaxTimeout
MaxPollInterval == 2     \* poll_interval ranges over 1 .. MaxPollInterval
MaxTokens == 3           \* a server has 0 .. MaxTokens tokens and reports such counts
MaxPageSize == 2         \* page_size ranges over 0 .. MaxPageSize
MaxIterations == 2       \* at most MaxIterations generators are made
MaxLifeEvents == 5       \* at most MaxLifeEvents close / __enter__ / __exit__ calls
MaxItems == 2            \* a decoded body has 0 .. MaxItems elements, members or characters
MaxCredentialLength == 2 \* the credentials tried have 0 .. MaxCredentialLength characters
MaxStatusCode == 10      \* the status codes tried are -MaxStatusCode .. MaxStatusCode and 999

(***************************************************************************)
(* Program constants (houdiniswap/constants.py).                           *)
(***************************************************************************)
HTTP_STATUS_OK == 200
HTTP_STATUS_BAD_REQUEST == 400
HTTP_STATUS_UNAUTHORIZED == 401
HTTP_STATUS_NOT_FOUND == 404
HTTP_STATUS_TOO_MANY_REQUESTS == 429
HTTP_STATUS_INTERNAL_SERVER_ERROR == 500
HTTP_STATUS_BAD_GATEWAY == 502
HTTP_STATUS_SERVICE_UNAVAILABLE == 503
HTTP_STATUS_GATEWAY_TIMEOUT == 504
retry_backoff_factor == 1
DEFAULT_CACHE_TTL == 300

(***************************************************************************)
(* The members of TransactionStatus (houdiniswap/models.py).               *)
(***************************************************************************)
StatusNEW == -1   \* TransactionStatus.NEW (NEW is a reserved word)
WAITING == 0
CONFIRMING == 1
EXCHANGING == 2
ANONYMIZING == 3
FINISHED == 4
EXPIRED == 5
FAILED == 6
REFUNDED == 7
DELETED == 8

Pow2(n) == 2 ^ n

(***************************************************************************)
(* What one session.request invocation can produce.                        *)
(*   kind   "resp"   a response object                                     *)
(*          "fail"   a requests.exceptions.RequestException                *)
(*          "unexp"  any other Exception                                   *)
(*   body   "obj_msg" a JSON object with a "message" member                *)
(*          "obj"     a JSON object without one                            *)
(*          "array"   valid JSON that is not an object (has no .get)       *)
(*          "text"    not valid JSON (response.json() raises ValueError)   *)
(*   ra     the Retry-After header: "absent", "seconds" (float() parses    *)
(*          it, to RetryAfterSeconds), "bad" (float() raises ValueError)   *)
(*          or "rejected" (float() parses it, to RejectedRetryAfter, and   *)
(*          time.sleep raises ValueError for that value)                   *)
(***************************************************************************)
Statuses ==
    { HTTP_STATUS_OK, HTTP_STATUS_BAD_REQUEST, HTTP_STATUS_UNAUTHORIZED,
      HTTP_STATUS_NOT_FOUND, HTTP_STATUS_TOO_MANY_REQUESTS,
      HTTP_STATUS_INTERNAL_SERVER_ERROR, HTTP_STATUS_BAD_GATEWAY,
      HTTP_STATUS_SERVICE_UNAVAILABLE, HTTP_STATUS_GATEWAY_TIMEOUT }

Bodies == {"obj_msg", "obj", "array", "text"}

Responses ==
    { [kind |-> "resp", status |-> s, body |-> b, ra |-> "absent"] :
          s \in Statuses, b \in Bodies }
    \cup
    { [kind |-> "resp", status |-> HTTP_STATUS_TOO_MANY_REQUESTS, body |-> b, ra |-> r] :
          b \in Bodies, r \in {"seconds", "bad", "rejected"} }

TransportFailure == [kind |-> "fail", status |-> 0, body |-> "none", ra |-> "absent"]

UnexpectedException == [kind |-> "unexp", status |-> 0, body |-> "none", ra |-> "absent"]

Outcomes == Responses \cup {TransportFailure, UnexpectedException}

NoOutcome == [kind |-> "none", status |-> 0, body |-> "none", ra |-> "absent"]

(***************************************************************************)
(* The statuses of the retryable_statuses list.                            *)
(***************************************************************************)
retryable_statuses ==
    { HTTP_STATUS_TOO_MANY_REQUESTS, HTTP_STATUS_INTERNAL_SERVER_ERROR,
      HTTP_STATUS_BAD_GATEWAY, HTTP_STATUS_SERVICE_UNAVAILABLE,
      HTTP_STATUS_GATEWAY_TIMEOUT }

(***************************************************************************)
(* How one iteration of the loop ends:                                     *)
(*   act "retry"  time.sleep(wait); continue                               *)
(*       "return" return val                                               *)
(*       "raise"  raise err(msg, status_code = status) from cause          *)
(* cause is the number of the transport invocation whose exception the     *)
(* raised error wraps (0: none); status 0 stands for status_code None.     *)
(* caught tells that an except clause assigned last_exception.             *)
(***************************************************************************)
Retry(w) ==
    [act |-> "retry", err |-> "none", status |-> 0, msg |-> "none",
     wait |-> w, val |-> "none", cause |-> 0, caught |-> FALSE]

Return(v) ==
    [act |-> "return", err |-> "none", status |-> 0, msg |-> "none",
     wait |-> 0, val |-> v, cause |-> 0, caught |-> FALSE]

Raise(e, s, m, c) ==
    [act |-> "raise", err |-> e, status |-> s, msg |-> m,
     wait |-> 0, val |-> "none", cause |-> c, caught |-> FALSE]

NoResult ==
    [act |-> "none", err |-> "none", status |-> 0, msg |-> "none",
     wait |-> 0, val |-> "none", cause |-> 0, caught |-> FALSE]

\* `last_exception = e` at the head of an except clause
Caught(r) == [r EXCEPT !.caught = TRUE]

\* the generic backoff: retry_backoff_factor * (2 ** attempt)
Backoff(a) == retry_backoff_factor * Pow2(a)

\* the values of `range(self.max_retries + 1)`
LoopRangeShort(mr) == 0 .. (mr - 1)

LoopRange(mr) == 0 .. mr

RetriesLeftInclusive(a, mr) == a <= mr

\* `attempt < self.max_retries`
RetriesLeft(a, mr) == a < mr

OnRequestExceptionNoRetry(a, mr) ==
    Caught(Raise("NetworkError", 0, "Network error", a + 1))

\* except requests.exceptions.RequestException as e
OnRequestException(a, mr) ==
    IF RetriesLeft(a, mr) THEN Caught(Retry(Backoff(a)))
    ELSE Caught(Raise("NetworkError", 0, "Network error", a + 1))

OnExceptionUnwrapped(a, mr) ==
    IF RetriesLeft(a, mr) THEN Caught(Retry(Backoff(a)))
    ELSE Caught(Raise("HoudiniSwapError", 0, "Request failed after all retries", 0))

\* except Exception as e; msg "Unexpected error" stands for
\* ERROR_UNEXPECTED.format(str(e)) and cause names the e it is formatted from
OnException(a, mr) ==
    IF RetriesLeft(a, mr) THEN Caught(Retry(Backoff(a)))
    ELSE Caught(Raise("HoudiniSwapError", 0, "Unexpected error", a + 1))

OnUnauthorizedRetried(a, mr) ==
    IF RetriesLeft(a, mr) THEN Retry(Backoff(a))
    ELSE Raise("AuthenticationError", 0, "Authentication failed", 0)

\* the 401 branch; the raise passes through `except (APIError, AuthenticationError)`
OnUnauthorized(a, mr) ==
    Raise("AuthenticationError", 0, "Authentication failed", 0)

\* a Retry-After that float() parses and time.sleep refuses: a negative number
RejectedRetryAfter == 0 - 5

\* wait_time of the 429 branch
RateLimitWait(o, a) ==
    IF o.ra = "seconds" THEN RetryAfterSeconds
    ELSE IF o.ra = "rejected" THEN RejectedRetryAfter
    ELSE retry_backoff_factor * Pow2(a) * 2

\* time.sleep(w) raises ValueError for a negative w
SleepRaises(w) == w < 0

OnRateLimitAlwaysRetried(o, a, mr) == Retry(retry_backoff_factor * Pow2(a) * 2)

\* the 429 branch; an exception of time.sleep is raised inside the try block
\* and lands in `except Exception`
OnRateLimit(o, a, mr) ==
    IF RetriesLeft(a, mr)
    THEN IF SleepRaises(RateLimitWait(o, a)) THEN OnException(a, mr)
         ELSE Retry(RateLimitWait(o, a))
    ELSE CASE o.body = "text" ->
                Raise("APIError", o.status, "Rate limit exceeded. Please wait before retrying.", 0)
           [] o.body = "obj" ->
                Raise("APIError", o.status, "Rate limit exceeded. Please wait before retrying.", 0)
           [] o.body = "obj_msg" ->
                Raise("APIError", o.status, "body.message. Please wait before retrying.", 0)
           [] OTHER              -> OnException(a, mr)   \* error_data.get: AttributeError

\* the `status_code >= HTTP_STATUS_BAD_REQUEST` branch
OnHttpError(o, a, mr) ==
    CASE o.body = "text"    -> Raise("APIError", o.status, "API error: status - text", 0)
      [] o.body = "obj"     -> Raise("APIError", o.status, "API error: status", 0)
      [] o.body = "obj_msg" -> Raise("APIError", o.status, "body.message", 0)
      [] OTHER              -> OnException(a, mr)        \* error_data.get: AttributeError

\* the body of the try block for a response
OnResponse(o, a, mr) ==
    IF o.status = HTTP_STATUS_UNAUTHORIZED
    THEN OnUnauthorized(a, mr)
    ELSE IF o.status = HTTP_STATUS_TOO_MANY_REQUESTS
    THEN OnRateLimit(o, a, mr)
    ELSE IF o.status \in retryable_statuses /\ RetriesLeft(a, mr)
    THEN Retry(Backoff(a))
    ELSE IF o.status >= HTTP_STATUS_BAD_REQUEST
    THEN OnHttpError(o, a, mr)
    ELSE IF o.body = "text" THEN Return("wrapped_text")  \* {"response": response.text}
    ELSE Return(o.body)

\* one iteration of the loop, for transport outcome o at loop index a
Iteration(o, a, mr) ==
    CASE o.kind = "fail"  -> OnRequestException(a, mr)
      [] o.kind = "unexp" -> OnException(a, mr)
      [] OTHER            -> OnResponse(o, a, mr)

(***************************************************************************)
(* The request engine, one transport invocation per step.                  *)
(***************************************************************************)
RequestInit ==
    /\ max_retries \in (-1) .. MaxRetries
    /\ pc = "idle"
    /\ attempt = 0
    /\ calls = 0
    /\ sleeps = <<>>
    /\ trace = <<>>
    /\ lastOut = NoOutcome
    /\ last_exception = 0
    /\ result = NoResult

\* a call of _request begins (or the previous one is over and a new one begins)
RequestCall ==
    /\ pc \in {"idle", "done"}
    /\ pc' = "loop"
    /\ attempt' = 0
    /\ calls' = 0
    /\ sleeps' = <<>>
    /\ trace' = <<>>
    /\ lastOut' = NoOutcome
    /\ last_exception' = 0
    /\ result' = NoResult
    /\ UNCHANGED <<max_retries, cacheVars, parVars, helperVars>>

\* one iteration: session.request, the classification, and the sleep before a retry
Attempt ==
    /\ pc = "loop"
    /\ attempt \in LoopRange(max_retries)
    /\ \E o \in Outcomes :
         LET r == Iteration(o, attempt, max_retries) IN
         /\ calls' = calls + 1
         /\ lastOut' = o
         /\ last_exception' = IF r.caught THEN calls + 1 ELSE last_exception
         /\ trace' = Append(trace, [kind |-> o.kind, status |-> o.status])
         /\ IF r.act = "retry"
            THEN /\ sleeps' = Append(sleeps, r.wait)
                 /\ attempt' = attempt + 1
                 /\ pc' = "loop"
                 /\ result' = result
            ELSE /\ sleeps' = sleeps
                 /\ attempt' = attempt
                 /\ pc' = "done"
                 /\ result' = r
    /\ UNCHANGED <<max_retries, cacheVars, parVars, helperVars>>

\* the loop is over without a return or a raise: the code after the loop
PostLoop ==
    /\ pc = "loop"
    /\ attempt \notin LoopRange(max_retries)
    /\ pc' = "done"
    /\ result' =
         IF last_exception # 0
         THEN Raise("HoudiniSwapError", 0, "Unexpected error", last_exception)
         ELSE Raise("HoudiniSwapError", 0, "Request failed after all retries", 0)
    /\ UNCHANGED <<max_retries, attempt, calls, sleeps, trace, lastOut, last_exception>>
    /\ UNCHANGED <<cacheVars, parVars, helperVars>>

(***************************************************************************)
(* How a call of _request by a token read can end: with the return or the  *)
(* raise of the loop iteration that does not retry.                        *)
(***************************************************************************)
\* the transport outcomes met by the token reads
ReadOutcomes ==
    { [kind |-> "resp", status |-> HTTP_STATUS_OK, body |-> b, ra |-> "absent"] :
          b \in {"array", "obj"} }
    \cup
    { [kind |-> "resp", status |-> s, body |-> "obj", ra |-> "absent"] :
          s \in {HTTP_STATUS_UNAUTHORIZED, HTTP_STATUS_INTERNAL_SERVER_ERROR} }
    \cup {TransportFailure}

RequestResults(mr) ==
    { r \in { Iteration(o, a, mr) : o \in ReadOutcomes, a \in LoopRange(mr) } :
          r.act # "retry" }

(***************************************************************************)
(* The token cache.                                                        *)
(***************************************************************************)
Chains == {"None", "all", "base"}     \* the chain argument; "None" is None

\* the (page, page_size, chain) arguments of get_dex_tokens
DexArgs ==
    { <<0, 1, "None">>, <<1, 0, "None">>, <<2, 1, "None">> } \cup
    { <<1, 1, c>> : c \in Chains }

\* cache_key = "cex_tokens"
CexKey == [op |-> "cex_tokens", page |-> 0, size |-> 0, chain |-> "-"]

\* cache_key = f"dex_tokens_{page}_{page_size}_{chain or 'all'}"
DexKey(page, page_size, chain) ==
    [op |-> "dex_tokens", page |-> page, size |-> page_size,
     chain |-> IF chain = "None" THEN "all" ELSE chain]

NoKey == [op |-> "none", page |-> 0, size |-> 0, chain |-> "-"]

Keys ==
    {CexKey} \cup
    { DexKey(a[1], a[2], a[3]) : a \in { x \in DexArgs : x[1] >= 1 /\ x[2] >= 1 } }

\* a stored (data, timestamp) pair; data names the decoded list object
\* the query parameters of GET /tokens (none) and of GET /dexTokens; "-" stands
\* for a chain parameter that is not sent (`if chain:`)
CexParams == [page |-> 0, pageSize |-> 0, chain |-> "-"]

DexParams(page, page_size, chain) ==
    [page |-> page, pageSize |-> page_size,
     chain |-> IF chain = "None" THEN "-" ELSE chain]

\* params tells which request the stored data answers
NoEntry == [data |-> 0, time |-> 0, params |-> CexParams]

Entry(d, t, p) == [data |-> d, time |-> t, params |-> p]

\* `current_time - cached_time < self.cache_ttl`
IsFreshInclusive(e, t, ttl) == t - e.time <= ttl

IsFresh(e, t, ttl) == t - e.time < ttl

\* `self.cache_enabled and cache_key in self._token_cache` and the entry is fresh
CacheHit(k, t) ==
    /\ cache_enabled
    /\ token_cache[k] # NoEntry
    /\ IsFresh(token_cache[k], t, cache_ttl)

\* self._token_cache.clear()
ClearedDexOnly(c) == [k \in DOMAIN c |-> IF k = CexKey THEN c[k] ELSE NoEntry]

Cleared(c) == [k \in DOMAIN c |-> NoEntry]

\* what a cache operation returned or raised
Value(d) == [kind |-> "value", data |-> d, err |-> "none"]

Raised(e) == [kind |-> "raise", data |-> 0, err |-> e]

NoValue == [kind |-> "none", data |-> 0, err |-> "none"]

StoredKeys(c) == { k \in DOMAIN c : c[k] # NoEntry }

\* the record of a cache operation: the key it computed, the number of calls of
\* _request it made, what it returned or raised; had tells whether clear_cache
\* found entries. An operation that leaves this record as it was leaves the
\* whole state as it was.
Op(name, k, reqs, res) ==
    [op |-> name, key |-> k, reqs |-> reqs, res |-> res,
     had |-> name = "clear" /\ StoredKeys(token_cache) # {}]

NoOp ==
    [op |-> "none", key |-> NoKey, reqs |-> 0, res |-> NoValue, had |-> FALSE]

\* get_cex_tokens after the call of _request: the list test and Token.from_dict
DecodeCex(r, items) ==
    IF r.act = "raise" THEN Raised(r.err)
    ELSE IF r.val # "array" THEN Raised("APIError")
    ELSE IF items = "invalid" THEN Raised("ValidationError")
    ELSE Value(fetches + 1)

\* get_dex_tokens after the call of _request: response.get and DEXToken.from_dict
DecodeDex(r, items) ==
    IF r.act = "raise" THEN Raised(r.err)
    ELSE IF r.val = "array" THEN Raised("AttributeError")
    ELSE IF items = "invalid" THEN Raised("AttributeError")
    ELSE Value(fetches + 1)

FetchEvicting(name, k, params, res) ==
    /\ last' = Op(name, k, 1, res)
    /\ IF res.kind = "value"
       THEN /\ fetches < MaxFetches
            /\ fetches' = fetches + 1
            /\ \E d \in 0 .. 1 :
                 /\ now + d <= MaxTime
                 /\ now' = now + d
            /\ token_cache' =
                 IF cache_enabled
                 THEN [token_cache EXCEPT ![k] = Entry(res.data, now, params)]
                 ELSE token_cache
       ELSE /\ token_cache' = [token_cache EXCEPT ![k] = NoEntry]
            /\ UNCHANGED <<now, fetches>>

\* the part of a token read that follows a cache miss: the call of _request and
\* the decoding ended as res, after d seconds; the entry is written, with the time
\* read before the call, when caching is enabled
Fetch(name, k, params, res) ==
    /\ last' = Op(name, k, 1, res)
    /\ IF res.kind = "value"
       THEN /\ fetches < MaxFetches
            /\ fetches' = fetches + 1
            /\ \E d \in 0 .. 1 :
                 /\ now + d <= MaxTime
                 /\ now' = now + d
            /\ token_cache' =
                 IF cache_enabled
                 THEN [token_cache EXCEPT ![k] = Entry(res.data, now, params)]
                 ELSE token_cache
       ELSE UNCHANGED <<now, fetches, token_cache>>

\* the part of a token read that returns the cached value
ReturnCached(name, k) ==
    /\ last' = Op(name, k, 0, Value(token_cache[k].data))
    /\ UNCHANGED <<now, fetches, token_cache>>

get_cex_tokens ==
    /\ \/ /\ CacheHit(CexKey, now)
          /\ ReturnCached("cex", CexKey)
       \/ /\ ~CacheHit(CexKey, now)
          /\ \E r \in RequestResults(max_retries), items \in {"valid", "invalid"} :
                Fetch("cex", CexKey, CexParams, DecodeCex(r, items))
    /\ UNCHANGED <<reqVars, parVars, helperVars, cache_enabled, cache_ttl>>

get_dex_tokens ==
    /\ \E args \in DexArgs :
         LET page == args[1]
             page_size == args[2]
             chain == args[3]
         IN
         IF page < 1 \/ page_size < 1
         THEN /\ last' = Op("dex", NoKey, 0, Raised("ValidationError"))
              /\ UNCHANGED <<now, fetches, token_cache>>
         ELSE LET k == DexKey(page, page_size, chain) IN
              \/ /\ CacheHit(k, now)
                 /\ ReturnCached("dex", k)
              \/ /\ ~CacheHit(k, now)
                 /\ \E r \in RequestResults(max_retries),
                       items \in {"valid", "invalid"} :
                       Fetch("dex", k, DexParams(page, page_size, chain), DecodeDex(r, items))
    /\ UNCHANGED <<reqVars, parVars, helperVars, cache_enabled, cache_ttl>>

clear_cache ==
    /\ token_cache' = Cleared(token_cache)
    /\ last' = Op("clear", NoKey, 0, NoValue)
    /\ UNCHANGED <<reqVars, parVars, helperVars, cache_enabled, cache_ttl, now, fetches>>

\* the caller assigns client.cache_enabled
SetCacheEnabled ==
    /\ cache_enabled' = ~cache_enabled
    /\ UNCHANGED <<reqVars, parVars, helperVars, cache_ttl, token_cache, now, fetches, last>>

\* a second passes
Tick ==
    /\ now < MaxTime
    /\ now' = now + 1
    /\ UNCHANGED <<reqVars, parVars, helperVars, cache_enabled, cache_ttl, token_cache, fetches, last>>

\* the cache of a client right after construction
CacheNew ==
    /\ token_cache = [k \in Keys |-> NoEntry]
    /\ now = 0
    /\ fetches = 0
    /\ last = NoOp


(***************************************************************************)
(* execute_parallel.  Thunk i (1 .. N here, 0 .. N-1 in the code) returns  *)
(* its own value or raises its own Exception; the future of a finished     *)
(* thunk holds that outcome.  The pool is concurrent.futures'              *)
(* ThreadPoolExecutor: a FIFO queue of submitted thunks and at most        *)
(* max_workers threads, each running one thunk at a time; a submit starts  *)
(* a thread when none exists, and may start one while fewer than           *)
(* max_workers exist.                                                      *)
(***************************************************************************)
None == [kind |-> "None", of |-> 0]

\* what future.result() gives for thunk i: its return value, or its exception
Outcome(i) == [kind |-> requests[i], of |-> i]

Running == { i \in 1 .. Len(requests) : tstate[i] = "running" }

Queued == { i \in 1 .. Len(requests) : tstate[i] = "queued" }

Submitted == { i \in 1 .. Len(requests) : tstate[i] # "new" }

\* ThreadPoolExecutor(max_workers=max_workers): the largest number of threads
PoolSizeOnePerRequest(mw, n) == n

PoolSizeDefault(mw, n) == 5

PoolSize(mw, n) == mw

\* `index = future_to_index[future]`: the slot for the k-th yielded future, of thunk i
ResultSlotByCompletion(i, k) == k

ResultSlot(i, k) == i

ParIdle ==
    /\ requests = <<>>
    /\ max_workers = 1
    /\ mainpc = "idle"
    /\ tstate = <<>>
    /\ runs = <<>>
    /\ threads = 0
    /\ results = <<>>
    /\ order = <<>>

\* the call: results = [None] * len(requests), and the pool is created
execute_parallel ==
    /\ mainpc = "idle"
    /\ \E n \in 0 .. MaxThunks :
         /\ requests' \in [1 .. n -> {"ret", "exc"}]
         /\ tstate' = [i \in 1 .. n |-> "new"]
         /\ runs' = [i \in 1 .. n |-> 0]
         /\ results' = [i \in 1 .. n |-> None]
    /\ max_workers' \in 1 .. MaxWorkers
    /\ mainpc' = "submit"
    /\ threads' = 0
    /\ order' = <<>>
    /\ UNCHANGED <<reqVars, cacheVars, helperVars>>

\* executor.submit(req) for the next request, in list order
Submit ==
    /\ mainpc = "submit"
    /\ Submitted # 1 .. Len(requests)
    /\ LET i == Cardinality(Submitted) + 1 IN
         tstate' = [tstate EXCEPT ![i] = "queued"]
    /\ \/ /\ threads < PoolSize(max_workers, Len(requests))
          /\ threads' = threads + 1
       \/ /\ threads > 0
          /\ threads' = threads
    /\ UNCHANGED <<requests, max_workers, mainpc, runs, results, order>>
    /\ UNCHANGED <<reqVars, cacheVars, helperVars>>

\* every request is submitted: the loop over as_completed begins
SubmitDone ==
    /\ mainpc = "submit"
    /\ Submitted = 1 .. Len(requests)
    /\ mainpc' = "collect"
    /\ UNCHANGED <<requests, max_workers, tstate, runs, threads, results, order>>
    /\ UNCHANGED <<reqVars, cacheVars, helperVars>>

\* a free worker thread takes the oldest queued thunk and starts it
WorkerStart ==
    /\ Queued # {}
    /\ Cardinality(Running) < threads
    /\ LET i == CHOOSE j \in Queued : \A k \in Queued : j <= k IN
         /\ tstate' = [tstate EXCEPT ![i] = "running"]
         /\ runs' = [runs EXCEPT ![i] = @ + 1]
    /\ UNCHANGED <<requests, max_workers, mainpc, threads, results, order>>
    /\ UNCHANGED <<reqVars, cacheVars, helperVars>>

\* a running thunk returns or raises: its future is finished
ThunkDone ==
    /\ \E i \in Running :
         tstate' = [tstate EXCEPT ![i] = "finished"]
    /\ UNCHANGED <<requests, max_workers, mainpc, runs, threads, results, order>>
    /\ UNCHANGED <<reqVars, cacheVars, helperVars>>

\* as_completed yields a finished future not yet yielded; its result, or the
\* exception it raised, is stored
Collect ==
    /\ mainpc = "collect"
    /\ \E i \in 1 .. Len(requests) :
         /\ tstate[i] = "finished"
         /\ \A k \in 1 .. Len(order) : order[k] # i
         /\ results' = [results EXCEPT ![ResultSlot(i, Len(order) + 1)] = Outcome(i)]
         /\ order' = Append(order, i)
    /\ UNCHANGED <<requests, max_workers, mainpc, tstate, runs, threads>>
    /\ UNCHANGED <<reqVars, cacheVars, helperVars>>

\* as_completed is exhausted; the with block ends (shutdown(wait=True)); return
ReturnResults ==
    /\ mainpc = "collect"
    /\ Len(order) = Len(requests)
    /\ mainpc' = "returned"
    /\ UNCHANGED <<requests, max_workers, tstate, runs, threads, results, order>>
    /\ UNCHANGED <<reqVars, cacheVars, helperVars>>

(***************************************************************************)
(* The client with no request, no cached read and no fan-out in progress,  *)
(* as __init__ leaves it (caching is off by default).                      *)
(***************************************************************************)
CoreIdle ==
    /\ max_retries = MaxRetries
    /\ pc = "idle"
    /\ attempt = 0
    /\ calls = 0
    /\ sleeps = <<>>
    /\ trace = <<>>
    /\ lastOut = NoOutcome
    /\ last_exception = 0
    /\ result = NoResult
    /\ cache_enabled = FALSE
    /\ cache_ttl = MaxTTL
    /\ CacheNew
    /\ ParIdle

(***************************************************************************)
(* The polling helpers wait_for_status and poll_until_finished.            *)
(* Time is in seconds; elapsed is time.time() - start_time.  A get_status  *)
(* call takes a time in FetchTimes and time.sleep(poll_interval) takes     *)
(* poll_interval.                                                          *)
(***************************************************************************)
TransactionStatus ==
    {StatusNEW, WAITING, CONFIRMING, EXCHANGING, ANONYMIZING,
     FINISHED, EXPIRED, FAILED, REFUNDED, DELETED}

\* no Status fetched yet / no status named
NoStatus == -2

final_statuses == {FINISHED, FAILED, EXPIRED, REFUNDED}

IsFinalExceptFailed(s) == s \in final_statuses \ {FAILED}

\* poll_until_finished: status.status in final_statuses
IsFinal(s) == s \in final_statuses

IsTargetOrFinal(s, t) == s = t \/ s \in final_statuses

\* wait_for_status: status.status == target_status
IsTarget(s, t) == s = t

TimedOutLate(e, t) == e > t + 1

\* time.time() - start_time > timeout
TimedOut(e, t) == e > t

\* the errors get_status raises: its own ValidationError and those of _request
GetStatusErrors ==
    {"ValidationError", "AuthenticationError", "APIError", "NetworkError",
     "HoudiniSwapError"}

\* what one get_status call gives: a Status or a raised error
GetStatusAnswers ==
    [kind : {"status"}, status : TransactionStatus, err : {"none"}]
    \cup [kind : {"raise"}, status : {NoStatus}, err : GetStatusErrors]

\* the durations of one get_status call
FetchTimes == 0 .. 1

\* the target_status arguments tried
Targets == {WAITING, FINISHED, FAILED}

\* how a polling call ends; current and target are the statuses the
\* TimeoutError message names
PollReturn(s) ==
    [kind |-> "return", err |-> "none", status |-> s,
     current |-> NoStatus, target |-> NoStatus]

PollPropagate(e) ==
    [kind |-> "raise", err |-> e, status |-> NoStatus,
     current |-> NoStatus, target |-> NoStatus]

TimeoutErrorNamingTarget(s, t) ==
    [kind |-> "raise", err |-> "TimeoutError", status |-> NoStatus,
     current |-> t, target |-> t]

TimeoutError(s, t) ==
    [kind |-> "raise", err |-> "TimeoutError", status |-> NoStatus,
     current |-> s, target |-> t]

NoPollResult ==
    [kind |-> "none", err |-> "none", status |-> NoStatus,
     current |-> NoStatus, target |-> NoStatus]

PollIdle ==
    /\ poll_op = "none"
    /\ target_status = NoStatus
    /\ timeout = 0
    /\ poll_interval = 1
    /\ pollpc = "idle"
    /\ polls = 0
    /\ elapsed = 0
    /\ status = NoStatus
    /\ psleeps = <<>>
    /\ presult = NoPollResult

\* the call: start_time = time.time(), then the loop
PollCall(op, t, to, pi) ==
    /\ pollpc \in {"idle", "done"}
    /\ poll_op' = op
    /\ target_status' = t
    /\ timeout' = to
    /\ poll_interval' = pi
    /\ pollpc' = "loop"
    /\ polls' = 0
    /\ elapsed' = 0
    /\ status' = NoStatus
    /\ psleeps' = <<>>
    /\ presult' = NoPollResult

wait_for_status ==
    /\ \E t \in Targets, to \in (-MaxTimeout) .. MaxTimeout,
          pi \in 1 .. MaxPollInterval :
         PollCall("wait_for_status", t, to, pi)
    /\ UNCHANGED exceptPoll

poll_until_finished ==
    /\ \E to \in (-MaxTimeout) .. MaxTimeout, pi \in 1 .. MaxPollInterval :
         PollCall("poll_until_finished", NoStatus, to, pi)
    /\ UNCHANGED exceptPoll

PollIterationTimeFirst(a, d, match, named) ==
    LET e == elapsed + d IN
    /\ polls' = polls + 1
    /\ IF a.kind = "raise"
       THEN /\ status' = status
            /\ elapsed' = e
            /\ psleeps' = psleeps
            /\ pollpc' = "done"
            /\ presult' = PollPropagate(a.err)
       ELSE /\ status' = a.status
            /\ IF TimedOut(e, timeout)
               THEN /\ elapsed' = e
                    /\ psleeps' = psleeps
                    /\ pollpc' = "done"
                    /\ presult' = TimeoutError(a.status, named)
               ELSE IF match
               THEN /\ elapsed' = e
                    /\ psleeps' = psleeps
                    /\ pollpc' = "done"
                    /\ presult' = PollReturn(a.status)
               ELSE /\ elapsed' = e + poll_interval
                    /\ psleeps' = Append(psleeps, poll_interval)
                    /\ pollpc' = "loop"
                    /\ presult' = presult
    /\ UNCHANGED <<poll_op, target_status, timeout, poll_interval>>

\* one iteration of `while True`: get_status, the match test, the timeout
\* test and the sleep; a is the answer of get_status, d the time it took,
\* match the result of the match test, named the target the message names
PollIteration(a, d, match, named) ==
    LET e == elapsed + d IN
    /\ polls' = polls + 1
    /\ IF a.kind = "raise"
       THEN /\ status' = status
            /\ elapsed' = e
            /\ psleeps' = psleeps
            /\ pollpc' = "done"
            /\ presult' = PollPropagate(a.err)
       ELSE /\ status' = a.status
            /\ IF match
               THEN /\ elapsed' = e
                    /\ psleeps' = psleeps
                    /\ pollpc' = "done"
                    /\ presult' = PollReturn(a.status)
               ELSE IF TimedOut(e, timeout)
               THEN /\ elapsed' = e
                    /\ psleeps' = psleeps
                    /\ pollpc' = "done"
                    /\ presult' = TimeoutError(a.status, named)
               ELSE /\ elapsed' = e + poll_interval
                    /\ psleeps' = Append(psleeps, poll_interval)
                    /\ pollpc' = "loop"
                    /\ presult' = presult
    /\ UNCHANGED <<poll_op, target_status, timeout, poll_interval>>

wait_for_status_loop ==
    /\ poll_op = "wait_for_status"
    /\ pollpc = "loop"
    /\ \E a \in GetStatusAnswers, d \in FetchTimes :
         /\ d = 0 \/ elapsed <= timeout
         /\ PollIteration(a, d, IsTarget(a.status, target_status), target_status)
    /\ UNCHANGED exceptPoll

poll_until_finished_loop ==
    /\ poll_op = "poll_until_finished"
    /\ pollpc = "loop"
    /\ \E a \in GetStatusAnswers, d \in FetchTimes :
         /\ d = 0 \/ elapsed <= timeout
         /\ PollIteration(a, d, IsFinal(a.status), NoStatus)
    /\ UNCHANGED exceptPoll

(***************************************************************************)
(* iter_dex_tokens and get_all_dex_tokens.  Calling iter_dex_tokens makes  *)
(* a generator object and runs none of its body; each next() of the        *)
(* consumer (a for loop, or the list() of get_all_dex_tokens) runs the     *)
(* body up to the next yield, the end of the body or a raise.  Tokens are  *)
(* numbered; page p of a server with N tokens and page size s holds the    *)
(* tokens (p-1)*s+1 .. min(p*s, N).  Caching is off (the default), so      *)
(* every get_dex_tokens call that passes validation is a page fetch.       *)
(***************************************************************************)
Max(a, b) == IF a >= b THEN a ELSE b

Min(a, b) == IF a <= b THEN a ELSE b

total_pages_floor(c, ps) == c \div ps

\* total_pages = (response.count + page_size - 1) // page_size
total_pages(c, ps) == (c + ps - 1) \div ps

LastPageAfter(p, tp) == p > tp

\* if page >= total_pages: break
LastPage(p, tp) == p >= tp

\* page = 1, the first statement of the generator body
FirstPage == 1

PageExhaustedEarly(pos, n) == pos >= n - 1

\* `for token in response.tokens` has no token left
PageExhausted(pos, n) == pos >= n

\* the tokens first + 1 .. first + n
TokenRun(first, n) == [i \in 1 .. n |-> first + i]

PageOf(toks, c) == [kind |-> "page", tokens |-> toks, count |-> c, err |-> "none"]

PageError(e) == [kind |-> "raise", tokens |-> <<>>, count |-> 0, err |-> e]

\* the answer of a consistent server with n tokens
ServerPage(p, ps, n) ==
    PageOf(TokenRun((p - 1) * ps, Max(0, Min(ps, n - (p - 1) * ps))), n)

\* what get_dex_tokens(page = p, page_size = ps) can return or raise
DexTokensAnswers(p, ps) ==
    IF ps < 1
    THEN {PageError("ValidationError")}
    ELSE IF consistent
    THEN {ServerPage(p, ps, server_total)}
    ELSE { PageOf(TokenRun((p - 1) * ps, n), c) :
             n \in 0 .. ps, c \in 0 .. MaxTokens }
         \cup {PageError("APIError")}

IterIdle ==
    /\ iterpc = "none"
    /\ consumer = "none"
    /\ gen_page = 0
    /\ gen_page_size = 0
    /\ gen_tokens = <<>>
    /\ gen_pos = 0
    /\ gen_count = 0
    /\ fetched = <<>>
    /\ yielded = <<>>
    /\ max_count = 0
    /\ iterations = 0
    /\ prev = [pc |-> "none", page |-> 0]

\* a new generator object: its frame holds the arguments only
NewGenerator(ps, by) ==
    /\ iterations < MaxIterations
    /\ consumer # "list" \/ iterpc \in {"done", "raised"}
    /\ iterations' = iterations + 1
    /\ prev' = [pc |-> iterpc, page |-> gen_page]
    /\ iterpc' = "created"
    /\ consumer' = by
    /\ gen_page' = 0
    /\ gen_page_size' = ps
    /\ gen_tokens' = <<>>
    /\ gen_pos' = 0
    /\ gen_count' = 0
    /\ fetched' = <<>>
    /\ yielded' = <<>>
    /\ max_count' = 0
    /\ UNCHANGED <<consistent, server_total>>

iter_dex_tokens ==
    /\ \E ps \in 0 .. MaxPageSize : NewGenerator(ps, "for")
    /\ UNCHANGED exceptIter

\* list(self.iter_dex_tokens(...)): the generator is consumed to its end
get_all_dex_tokens ==
    /\ \E ps \in 0 .. MaxPageSize : NewGenerator(ps, "list")
    /\ UNCHANGED exceptIter

\* the top of `while True` with page = p: get_dex_tokens, the test of
\* response.tokens, and the first yield of the page
LoopTop(p) ==
    \E r \in DexTokensAnswers(p, gen_page_size) :
      /\ gen_page' = p
      /\ fetched' = IF gen_page_size < 1 THEN fetched ELSE Append(fetched, p)
      /\ IF r.kind = "raise"
         THEN /\ iterpc' = "raised"
              /\ UNCHANGED <<gen_tokens, gen_pos, gen_count, yielded, max_count>>
         ELSE /\ gen_tokens' = r.tokens
              /\ gen_count' = r.count
              /\ max_count' = Max(max_count, r.count)
              /\ IF r.tokens = <<>>
                 THEN /\ iterpc' = "done"
                      /\ gen_pos' = 0
                      /\ yielded' = yielded
                 ELSE /\ iterpc' = "yielded"
                      /\ gen_pos' = 1
                      /\ yielded' = Append(yielded, r.tokens[1])

\* one next() on the generator
GeneratorNext ==
    /\ iterpc \in {"created", "yielded"}
    /\ IF iterpc = "created"
       THEN LoopTop(FirstPage)
       ELSE IF ~PageExhausted(gen_pos, Len(gen_tokens))
       THEN /\ gen_pos' = gen_pos + 1
            /\ yielded' = Append(yielded, gen_tokens[gen_pos + 1])
            /\ UNCHANGED <<iterpc, gen_page, gen_tokens, gen_count, fetched,
                           max_count>>
       ELSE IF LastPage(gen_page, total_pages(gen_count, gen_page_size))
       THEN /\ iterpc' = "done"
            /\ UNCHANGED <<gen_page, gen_tokens, gen_pos, gen_count, fetched,
                           yielded, max_count>>
       ELSE LoopTop(gen_page + 1)
    /\ UNCHANGED <<consumer, gen_page_size, iterations, prev, consistent,
                   server_total>>
    /\ UNCHANGED exceptIter

(***************************************************************************)
(* close and the context manager.  __init__ makes the session and sets     *)
(* session.closed to False; the slot _closed is not assigned until close.  *)
(* A with statement calls __enter__, runs its block, and calls __exit__    *)
(* with the exception the block raised (or None); it lets that exception   *)
(* propagate unless __exit__ returns a true value.                         *)
(***************************************************************************)
NeverClosed(c) == FALSE

\* closed = object.__getattribute__(self, '_closed'), False when unset
AlreadyClosed(c) == c = "True"

\* the value __exit__ returns
ExitReturns == "None"

\* how the with statement ends
WithOutcome(raised, returned) ==
    IF ~raised THEN "ok"
    ELSE IF returned \in {"None", "False"} THEN "propagated"
    ELSE "suppressed"

LifeIdle ==
    /\ closed_slot = "unset"
    /\ session_closed = FALSE
    /\ session_close_calls = 0
    /\ with_depth = 0
    /\ with_result = "none"
    /\ lifelog = <<>>

\* the body of close(); the session object is always there and true
CloseBody ==
    IF ~AlreadyClosed(closed_slot)
    THEN /\ session_close_calls' = session_close_calls + 1
         /\ session_closed' = TRUE
         /\ closed_slot' = "True"
    ELSE UNCHANGED <<session_close_calls, session_closed, closed_slot>>

close ==
    /\ Len(lifelog) < MaxLifeEvents
    /\ CloseBody
    /\ lifelog' = Append(lifelog, "close")
    /\ UNCHANGED <<with_depth, with_result>>
    /\ UNCHANGED exceptLife

\* __enter__: return self
ctx_enter ==
    /\ Len(lifelog) < MaxLifeEvents
    /\ with_depth' = with_depth + 1
    /\ lifelog' = Append(lifelog, "enter")
    /\ UNCHANGED <<closed_slot, session_closed, session_close_calls, with_result>>
    /\ UNCHANGED exceptLife

\* __exit__(exc_type, exc_val, exc_tb): self.close()
ctx_exit ==
    /\ Len(lifelog) < MaxLifeEvents
    /\ with_depth > 0
    /\ \E raised \in BOOLEAN :
         /\ CloseBody
         /\ with_depth' = with_depth - 1
         /\ with_result' = WithOutcome(raised, ExitReturns)
         /\ lifelog' = Append(lifelog, IF raised THEN "exit_exc" ELSE "exit")
    /\ UNCHANGED exceptLife

LifeNext == close \/ ctx_enter \/ ctx_exit

(***************************************************************************)
(* Input validation of the typed operations.  A caller-supplied scalar is  *)
(* a Python value:                                                         *)
(*   type   "str", "float", "int" or "NoneType"                            *)
(*   chars  the characters of a str, over the alphabet                     *)
(*          "a" (a letter, also a hexadecimal digit), "d" (the text of a   *)
(*          number), " " (a space), "LF" (newline), "NUL" (\x00)           *)
(*   num    what the value is as a number: "pos", "zero", "neg", or        *)
(*          "invalid" when Decimal() cannot parse it                       *)
(***************************************************************************)
Str(cs) == [type |-> "str", chars |-> cs, num |-> "invalid"]

NumStr(n) == [type |-> "str", chars |-> <<"d">>, num |-> n]

Num(n) == [type |-> "float", chars |-> <<>>, num |-> n]

NotAString == [type |-> "int", chars |-> <<>>, num |-> "pos"]

NoneValue == [type |-> "NoneType", chars |-> <<>>, num |-> "invalid"]

Letters(n) == [i \in 1 .. n |-> "a"]

\* a text every validator accepts: ten letters
GoodText == Str(Letters(10))

\* a text of seven letters, like "invalid"
ShortText == Str(Letters(7))

\* the texts tried for a string argument
Scalars ==
    { GoodText, ShortText, Str(<<>>), Str(<<" ">>),
      Str(Letters(10) \o <<"LF">>), Str(<<"a", "LF", "a">>),
      Str(<<"a", "NUL">>), Str(<<"a", " ", "a">>), NotAString }

\* the values tried for an amount argument
Amounts ==
    { Num(n) : n \in {"pos", "zero", "neg"} }
    \cup { NumStr(n) : n \in {"pos", "zero", "neg", "invalid"} }
    \cup { NoneValue }

\* str.strip() removes these from both ends
Whitespace == {" ", "LF"}

Strip(cs) ==
    LET keep == { i \in 1 .. Len(cs) : cs[i] \notin Whitespace } IN
    IF keep = {} THEN <<>>
    ELSE SubSeq(cs, CHOOSE i \in keep : \A j \in keep : i <= j,
                    CHOOSE i \in keep : \A j \in keep : i >= j)

dangerous_chars == {"LF", "NUL"}

Accept(cs) == [ok |-> TRUE, value |-> cs]

Reject == [ok |-> FALSE, value |-> <<>>]

\* _sanitize_input: the stripped text, or ValidationError
sanitize_input(v) ==
    IF v.type # "str" THEN Reject
    ELSE LET sanitized == Strip(v.chars) IN
         IF sanitized = <<>> THEN Reject
         ELSE IF \E i \in 1 .. Len(sanitized) : sanitized[i] \in dangerous_chars
         THEN Reject
         ELSE Accept(sanitized)

\* _validate_amount: a number or a numeric text, greater than 0
validate_amount(a) ==
    /\ a.type \in {"int", "float", "str"}
    /\ a.num = "pos"

\* _normalize_amount and _normalize_amount_to_decimal: a number, or a text
\* that Decimal() parses
normalize_amount(a) ==
    IF a.type \in {"int", "float"} THEN Accept(<<"d">>)
    ELSE IF a.type = "str" /\ a.num # "invalid" THEN Accept(a.chars)
    ELSE Reject

\* float(amount_decimal)
AsFloat(a) == Num(a.num)

validate_token_id(v) == sanitize_input(v).ok

IsAlnum(cs) == cs # <<>> /\ \A i \in 1 .. Len(cs) : cs[i] \in {"a", "d"}

\* int(sanitized, 16) parses
IsHex(cs) == cs # <<>> /\ \A i \in 1 .. Len(cs) : cs[i] = "a"

validate_hex_string(v) ==
    LET s == sanitize_input(v) IN s.ok /\ IsHex(s.value)

HoudiniIdMinLength == 10

HoudiniIdMaxLength == 50

validate_houdini_id(v) ==
    LET s == sanitize_input(v) IN
    /\ s.ok
    /\ IsAlnum(s.value)
    /\ ~(Len(s.value) < HoudiniIdMinLength \/ Len(s.value) > HoudiniIdMaxLength)

\* the argument records tried: all arguments good, or one of them replaced
OneReplaced(good) ==
    {good} \cup
    UNION { { [good EXCEPT ![k] = v] :
                v \in IF k = "amount" THEN Amounts ELSE Scalars } :
            k \in DOMAIN good }

NoCall == [op |-> "none", args |-> <<>>, sent |-> FALSE, res |-> NoValue]

\* how a typed operation ends once its inputs passed: with the error
\* _request raised, or, when _request returned a body, with the decoded
\* value or with the error the decoding of that body raised
AfterRequest ==
    LET rs == RequestResults(max_retries) IN
    { Raised(r.err) : r \in { x \in rs : x.act = "raise" } }
    \cup (IF \E r \in rs : r.act = "return"
          THEN {Value(0), Raised("decode")}
          ELSE {})

\* a typed operation: ValidationError before any request when the inputs do
\* not pass, otherwise one call of _request
TypedCall(name, args, passes) ==
    /\ IF passes
       THEN \E res \in AfterRequest :
              lastcall' = [op |-> name, args |-> args, sent |-> TRUE, res |-> res]
       ELSE lastcall' = [op |-> name, args |-> args, sent |-> FALSE,
                         res |-> Raised("ValidationError")]
    /\ UNCHANGED exceptTyped

get_cex_quote ==
    \E args \in OneReplaced([amount |-> NumStr("pos"), from_token |-> GoodText,
                             to_token |-> GoodText]) :
      TypedCall("get_cex_quote", args, TRUE)

get_dex_quote ==
    \E args \in OneReplaced([amount |-> NumStr("pos"), token_id_from |-> GoodText,
                             token_id_to |-> GoodText]) :
      TypedCall("get_dex_quote", args,
                /\ normalize_amount(args.amount).ok
                /\ validate_token_id(args.token_id_from)
                /\ validate_token_id(args.token_id_to))

post_cex_exchange ==
    \E args \in OneReplaced([amount |-> Num("pos"), from_token |-> GoodText,
                             to_token |-> GoodText, address_to |-> GoodText]),
       receiver_tag \in Scalars \cup {NoneValue} :
      TypedCall("post_cex_exchange",
                [amount |-> args.amount, from_token |-> args.from_token,
                 to_token |-> args.to_token, address_to |-> args.address_to,
                 receiver_tag |-> receiver_tag],
                /\ validate_amount(args.amount)
                /\ sanitize_input(args.from_token).ok
                /\ sanitize_input(args.to_token).ok
                /\ sanitize_input(args.address_to).ok
                /\ normalize_amount(args.amount).ok
                /\ validate_amount(AsFloat(args.amount)))

post_dex_exchange ==
    \E args \in OneReplaced([amount |-> Num("pos"), token_id_from |-> GoodText,
                             token_id_to |-> GoodText, address_from |-> GoodText,
                             address_to |-> GoodText, swap |-> GoodText,
                             quote_id |-> GoodText]) :
      TypedCall("post_dex_exchange", args,
                /\ normalize_amount(args.amount).ok
                /\ validate_amount(AsFloat(args.amount))
                /\ validate_token_id(args.token_id_from)
                /\ validate_token_id(args.token_id_to)
                /\ sanitize_input(args.address_from).ok
                /\ sanitize_input(args.address_to).ok
                /\ sanitize_input(args.swap).ok
                /\ sanitize_input(args.quote_id).ok)

post_dex_approve ==
    \E args \in OneReplaced([token_id_from |-> GoodText, token_id_to |-> GoodText,
                             address_from |-> GoodText, amount |-> Num("pos"),
                             swap |-> GoodText]) :
      TypedCall("post_dex_approve", args,
                /\ normalize_amount(args.amount).ok
                /\ validate_amount(AsFloat(args.amount))
                /\ validate_token_id(args.token_id_from)
                /\ validate_token_id(args.token_id_to)
                /\ sanitize_input(args.address_from).ok
                /\ sanitize_input(args.swap).ok)

post_dex_confirm_tx ==
    \E args \in OneReplaced([transaction_id |-> GoodText, tx_hash |-> GoodText]) :
      TypedCall("post_dex_confirm_tx", args,
                /\ sanitize_input(args.transaction_id).ok
                /\ validate_hex_string(args.tx_hash))

get_status ==
    \E args \in OneReplaced([houdini_id |-> GoodText]) :
      TypedCall("get_status", args, validate_houdini_id(args.houdini_id))

get_min_max ==
    \E args \in OneReplaced([from_token |-> GoodText, to_token |-> GoodText]) :
      TypedCall("get_min_max", args,
                /\ sanitize_input(args.from_token).ok
                /\ sanitize_input(args.to_token).ok)

TypedIdle == lastcall = NoCall

TypedNext ==
    \/ get_cex_quote
    \/ get_dex_quote
    \/ post_cex_exchange
    \/ post_dex_exchange
    \/ post_dex_approve
    \/ post_dex_confirm_tx
    \/ get_status
    \/ get_min_max

(***************************************************************************)
(* The decoding of a response body by the typed operations.                *)
(* A decoded body (what _request returned) is described by                 *)
(*   shape  "array", "object" or "scalar"                                  *)
(*   len    the number of elements of an array, of members of an object,   *)
(*          of characters of a text; 0 for a number and for null           *)
(*   items  array:  what its elements are: "record" (objects with the      *)
(*                  members the record type requires), "object" (objects   *)
(*                  without them), "number"; "none" when it is empty       *)
(*          object: "record" (it has the members the record type           *)
(*                  requires) or "other"                                   *)
(*          scalar: "number", "null", "digits" (a text of digits) or       *)
(*                  "letters" (a text of letters)                          *)
(***************************************************************************)
JsonArray(n, k) == [shape |-> "array", len |-> n, items |-> IF n = 0 THEN "none" ELSE k]

JsonObject(n, k) == [shape |-> "object", len |-> n, items |-> k]

JsonScalar(n, k) == [shape |-> "scalar", len |-> n, items |-> k]

DecodedBodies ==
    { JsonArray(n, k) : n \in 0 .. MaxItems, k \in {"record", "object", "number"} }
    \cup { JsonObject(n, "record") : n \in 1 .. MaxItems }
    \cup { JsonObject(n, "other") : n \in 0 .. MaxItems }
    \cup { JsonScalar(0, k) : k \in {"number", "null"} }
    \cup { JsonScalar(n, k) : n \in 1 .. MaxItems, k \in {"digits", "letters"} }

\* isinstance(response, list), isinstance(response, dict)
is_list_response(b) == b.shape = "array"

is_dict_response(b) == b.shape = "object"

\* Token.from_dict, DexApproveResponse.from_dict on every element: the
\* element is an object that has the required members
AllRecords(b) == b.len = 0 \/ b.items = "record"

\* data.get(...) on every element: the element is an object
AllObjects(b) == b.len = 0 \/ b.items \in {"record", "object"}

\* get_cex_tokens: the list test, then Token.from_dict
decode_cex_tokens(b) ==
    IF ~is_list_response(b) THEN Raised("APIError")
    ELSE IF ~AllRecords(b) THEN Raised("ValidationError")
    ELSE Value(b.len)

\* get_dex_tokens: response.get("count", 0), response.get("tokens", [])
decode_dex_tokens(b) ==
    IF ~is_dict_response(b) THEN Raised("AttributeError")
    ELSE Value(b.len)

\* get_dex_quote: the list test, then DEXQuote.from_dict (data.get)
decode_dex_quote(b) ==
    IF ~is_list_response(b) THEN Raised("APIError")
    ELSE IF b.len = 0 THEN Value(0)
    ELSE IF ~AllObjects(b) THEN Raised("AttributeError")
    ELSE Value(b.len)

\* post_dex_approve: the list test, then DexApproveResponse.from_dict
decode_dex_approve(b) ==
    IF ~is_list_response(b) THEN Raised("APIError")
    ELSE IF b.len = 0 THEN Value(0)
    ELSE IF ~AllRecords(b) THEN Raised("ValidationError")
    ELSE Value(b.len)

\* get_status: `"houdiniId" not in response`, `response["houdiniId"] = ...`
\* (TypeError unless response is a dict), then Status.from_dict
decode_status(b) ==
    IF ~is_dict_response(b) THEN Raised("TypeError")
    ELSE IF b.items # "record" THEN Raised("ValidationError")
    ELSE Value(b.len)

\* get_min_max: MinMax.from_list(response): len(data), data[0], data[1],
\* Decimal(str(...))
decode_min_max(b) ==
    IF b.shape = "scalar" /\ b.items \in {"number", "null"} THEN Raised("TypeError")
    ELSE IF b.len < 2 THEN Raised("ValueError")
    ELSE IF b.shape = "object" THEN Raised("KeyError")
    ELSE IF b.items \in {"number", "digits"} THEN Value(b.len)
    ELSE Raised("InvalidOperation")

\* get_volume: Volume.from_dict (data.get) of the first element or of the object
decode_volume(b) ==
    IF is_list_response(b) /\ b.len > 0
    THEN IF b.items = "number" THEN Raised("AttributeError") ELSE Value(b.len)
    ELSE IF is_dict_response(b) THEN Value(b.len)
    ELSE Raised("APIError")

\* get_weekly_volume: WeeklyVolume.from_dict (data.get) of every element or of
\* the object
decode_weekly_volume(b) ==
    IF is_list_response(b)
    THEN IF ~AllObjects(b) THEN Raised("AttributeError") ELSE Value(b.len)
    ELSE IF is_dict_response(b) THEN Value(b.len)
    ELSE Raised("APIError")

NoDecode == [op |-> "none", body |-> JsonScalar(0, "null"), res |-> NoValue]

DecodeIdle == lastdecode = NoDecode

\* the part of a typed operation that follows the call of _request, which
\* returned the body b
Decode(name, b, res) ==
    /\ lastdecode' = [op |-> name, body |-> b, res |-> res]
    /\ UNCHANGED exceptDecode

get_cex_tokens_decode ==
    \E b \in DecodedBodies : Decode("get_cex_tokens", b, decode_cex_tokens(b))

get_dex_tokens_decode ==
    \E b \in DecodedBodies : Decode("get_dex_tokens", b, decode_dex_tokens(b))

get_dex_quote_decode ==
    \E b \in DecodedBodies : Decode("get_dex_quote", b, decode_dex_quote(b))

post_dex_approve_decode ==
    \E b \in DecodedBodies : Decode("post_dex_approve", b, decode_dex_approve(b))

get_status_decode ==
    \E b \in DecodedBodies : Decode("get_status", b, decode_status(b))

get_min_max_decode ==
    \E b \in DecodedBodies : Decode("get_min_max", b, decode_min_max(b))

get_volume_decode ==
    \E b \in DecodedBodies : Decode("get_volume", b, decode_volume(b))

get_weekly_volume_decode ==
    \E b \in DecodedBodies : Decode("get_weekly_volume", b, decode_weekly_volume(b))

\* class TransactionStatus(IntEnum): the value of each member
MemberValue ==
    [NEW |-> StatusNEW, WAITING |-> WAITING, CONFIRMING |-> CONFIRMING,
     EXCHANGING |-> EXCHANGING, ANONYMIZING |-> ANONYMIZING, FINISHED |-> FINISHED,
     EXPIRED |-> EXPIRED, FAILED |-> FAILED, REFUNDED |-> REFUNDED,
     DELETED |-> DELETED]

\* a payload handed to Status.from_dict: whether it is a dict, whether it has
\* the members houdiniId and status, and the integer status code
StatusPayload(shape, id, st, c) ==
    [shape |-> shape, len |-> 0, items |-> "status", has_id |-> id,
     has_status |-> st, code |-> c]

StatusCodes == ((-MaxStatusCode) .. MaxStatusCode) \cup {999}

StatusPayloads ==
    { StatusPayload("object", id, TRUE, c) : id \in BOOLEAN, c \in StatusCodes }
    \cup { StatusPayload("object", id, FALSE, 0) : id \in BOOLEAN }
    \cup { StatusPayload("array", FALSE, FALSE, 0) }

\* a Status whose status is the member n
StatusOf(n) == [kind |-> "value", data |-> MemberValue[n], err |-> "none", member |-> n]

\* TransactionStatus(status_code): the member with that value, or ValueError
HasMember(c) == \E n \in DOMAIN MemberValue : MemberValue[n] = c

Member(c) == CHOOSE n \in DOMAIN MemberValue : MemberValue[n] = c

status_from_dict_defaulting(d) ==
    IF d.shape # "object" THEN Raised("ValidationError")
    ELSE IF ~d.has_id \/ ~d.has_status THEN Raised("ValidationError")
    ELSE IF ~HasMember(d.code) THEN StatusOf("WAITING")
    ELSE StatusOf(Member(d.code))

\* Status.from_dict
status_from_dict(d) ==
    IF d.shape # "object" THEN Raised("ValidationError")
    ELSE IF ~d.has_id \/ ~d.has_status THEN Raised("ValidationError")
    ELSE IF ~HasMember(d.code) THEN Raised("ValidationError")
    ELSE StatusOf(Member(d.code))

Status_from_dict ==
    \E d \in StatusPayloads : Decode("Status.from_dict", d, status_from_dict(d))

DecodeNext ==
    \/ get_cex_tokens_decode
    \/ get_dex_tokens_decode
    \/ get_dex_quote_decode
    \/ post_dex_approve_decode
    \/ get_status_decode
    \/ get_min_max_decode
    \/ get_volume_decode
    \/ get_weekly_volume_decode
    \/ Status_from_dict

(***************************************************************************)
(* Construction of a client, and what can be read from it.                 *)
(* A credential is a str value whose characters are "k" (a character of a  *)
(* key), ":" or " ", or it is None.                                        *)
(***************************************************************************)
MAX_CREDENTIAL_LENGTH == 1000

Texts(n) == UNION { [1 .. m -> {"k", ":", " "}] : m \in 0 .. n }

Credentials == { Str(cs) : cs \in Texts(MaxCredentialLength) } \cup {NoneValue}

\* `not api_key`: None or the empty text
Falsy(v) == v.type = "NoneType" \/ v.chars = <<>>

\* `":" in api_key`
HasColon(v) == \E i \in 1 .. Len(v.chars) : v.chars[i] = ":"

validate_credentials_key_only(api_key, api_secret) ==
    /\ ~HasColon(api_key)
    /\ ~(Len(api_key.chars) > MAX_CREDENTIAL_LENGTH
           \/ Len(api_secret.chars) > MAX_CREDENTIAL_LENGTH)
    /\ ~(Strip(api_key.chars) = <<>> \/ Strip(api_secret.chars) = <<>>)

\* _validate_credentials returns (TRUE) or raises ValidationError (FALSE)
validate_credentials(api_key, api_secret) ==
    /\ ~(HasColon(api_key) \/ HasColon(api_secret))
    /\ ~(Len(api_key.chars) > MAX_CREDENTIAL_LENGTH
           \/ Len(api_secret.chars) > MAX_CREDENTIAL_LENGTH)
    /\ ~(Strip(api_key.chars) = <<>> \/ Strip(api_secret.chars) = <<>>)

\* f"{self._api_key}:{self._api_secret}"
AuthorizationHeader(k, s) == k \o <<":">> \o s

\* the base URL, and repr(client): f"<HoudiniSwapClient(base_url='{base_url}')>"
BaseUrl == <<"u">>

Repr(c) == <<"<">> \o c.base_url \o <<">">>

\* the latest call of the constructor: its arguments, whether it returned an
\* object, the slots of that object, the headers of its session, and the
\* number of sessions it made
NoClient ==
    [api_key |-> NoneValue, api_secret |-> NoneValue, constructed |-> FALSE,
     res |-> NoValue, _api_key |-> <<>>, _api_secret |-> <<>>, base_url |-> <<>>,
     Authorization |-> <<>>, sessions |-> 0]

Refused(k, s) ==
    [NoClient EXCEPT !.api_key = k, !.api_secret = s,
                     !.res = Raised("ValidationError")]

Constructed(k, s) ==
    [api_key |-> k, api_secret |-> s, constructed |-> TRUE, res |-> Value(0),
     _api_key |-> k.chars, _api_secret |-> s.chars, base_url |-> BaseUrl,
     Authorization |-> AuthorizationHeader(k.chars, s.chars), sessions |-> 1]

\* what reading an attribute gave: the texts reachable from the value read,
\* or AttributeError
Got(ts) == [kind |-> "value", texts |-> ts, err |-> "none"]

AttrError == [kind |-> "raise", texts |-> {}, err |-> "AttributeError"]

NoRead == [name |-> "none", res |-> [kind |-> "none", texts |-> {}, err |-> "none"]]

Attributes ==
    {"api_key", "api_secret", "_api_key", "_api_secret", "base_url", "session"}

\* object.__getattribute__(self, name): the value of the slot
SlotTexts(c, name) ==
    CASE name = "_api_key"    -> {c._api_key}
      [] name = "_api_secret" -> {c._api_secret}
      [] name = "base_url"    -> {c.base_url}
      [] name = "session"     -> {c.Authorization}   \* session.headers
      [] OTHER                -> {}

\* HoudiniSwapClient.__getattribute__
getattribute(c, name) ==
    IF name \in {"api_key", "api_secret"} THEN AttrError
    ELSE Got(SlotTexts(c, name))

CredIdle == client = NoClient /\ lastread = NoRead

\* HoudiniSwapClient(api_key, api_secret)
__init__ ==
    /\ \E k \in Credentials, s \in Credentials :
         client' = IF Falsy(k) \/ Falsy(s) THEN Refused(k, s)
                   ELSE IF ~validate_credentials(k, s) THEN Refused(k, s)
                   ELSE Constructed(k, s)
    /\ lastread' = NoRead
    /\ UNCHANGED exceptCred

\* client.<name>, for the client the constructor returned
__getattribute__ ==
    /\ client.constructed
    /\ \E name \in Attributes :
         lastread' = [name |-> name, res |-> getattribute(client, name)]
    /\ UNCHANGED client
    /\ UNCHANGED exceptCred

\* repr(client)
__repr__ ==
    /\ client.constructed
    /\ lastread' = [name |-> "__repr__", res |-> Got({Repr(client)})]
    /\ UNCHANGED client
    /\ UNCHANGED exceptCred

CredNext == __init__ \/ __getattribute__ \/ __repr__

(***************************************************************************)
(* The maps passed to _request, and the route payload.                     *)
(* A route payload is a dict object on the heap, named by its identity     *)
(* ("P" or "Q"); its members are bridge and extra.  A map passed as        *)
(* json_data has the entries amount (a number) and route (the identity of  *)
(* a payload, or NoRef for None).                                          *)
(***************************************************************************)
PayloadIds == {"P", "Q"}

NoRef == "None"

Payloads == [bridge : 0 .. 1, extra : 0 .. 1]

NullPayload == [bridge |-> -1, extra |-> -1]

\* the values passed where a route is expected: a dict, or something else
DictValue(p) == [type |-> "dict", ref |-> p]

ListValue == [type |-> "list", ref |-> NoRef]

\* RouteDTO.from_dict(data): cls(raw=data), or ValidationError
RouteDTO(p) == [type |-> "RouteDTO", ref |-> p]

from_dict(data) ==
    IF data.type # "dict" THEN [ok |-> FALSE, dto |-> RouteDTO(NoRef)]
    ELSE [ok |-> TRUE, dto |-> RouteDTO(data.ref)]

\* RouteDTO.to_dict(): return self.raw
to_dict(route) == route.ref

RouteFieldDropped(route) == NoRef

\* `route.to_dict() if isinstance(route, RouteDTO) else route`
RouteField(route) ==
    IF route.type = "RouteDTO" THEN to_dict(route) ELSE route.ref

\* the json_data of post_dex_exchange and of post_dex_approve
DexBody(amount, route) == [amount |-> amount, route |-> RouteField(route)]

\* dict(json_data): a new map with the same entries
dict_copy(m) == [amount |-> m.amount, route |-> m.route]

\* what session.request(json=m) serialises: the entries of m, and the
\* members of the payload its route entry refers to
Serialised(m, h) ==
    [amount |-> m.amount,
     route |-> IF m.route = NoRef THEN NullPayload ELSE h[m.route]]

NoMap == [amount |-> 0, route |-> NoRef]

NoWire == [method |-> "none", op |-> "none", answer |-> NoOutcome]

\* the transport outcomes met by a call that sends a body
BodyOutcomes == { o \in Outcomes : o.body \in {"obj", "none"} /\ o.ra = "absent" }

ResendIdempotentOnly(method, o, a, mr) ==
    method = "GET" /\ Iteration(o, a, mr).act = "retry"

\* the loop of _request goes on to another session.request(method, ...): the
\* iteration ends with time.sleep and `continue`; method is only passed on
Resend(method, o, a, mr) == Iteration(o, a, mr).act = "retry"

BodyIdle ==
    /\ body_op = "none"
    /\ payload = NoRef
    /\ route_arg = ListValue
    /\ json_data = NoMap
    /\ safe_json_data = NoMap
    /\ sent = <<>>
    /\ heap = [p \in PayloadIds |-> [bridge |-> 0, extra |-> 0]]
    /\ wire = NoWire

\* a call of _request(method, ..., json_data = m) begins: the defensive copy
RequestBody(method, op, p, route, m) ==
    /\ body_op' = op
    /\ wire' = [method |-> method, op |-> op, answer |-> NoOutcome]
    /\ payload' = p
    /\ route_arg' = route
    /\ json_data' = m
    /\ safe_json_data' = dict_copy(m)
    /\ sent' = <<>>
    /\ UNCHANGED heap
    /\ UNCHANGED exceptBody

\* the caller calls _request with a map of its own
request_json ==
    /\ body_op \in {"none", "done"}
    /\ \E method \in {"GET", "POST"}, a \in 1 .. 2, p \in PayloadIds :
         RequestBody(method, "_request", p, DictValue(p), [amount |-> a, route |-> p])

\* the caller decodes the payload p into a RouteDTO, or passes the dict
RouteArgs(p) == {from_dict(DictValue(p)).dto, DictValue(p)}

post_dex_exchange_body ==
    /\ body_op \in {"none", "done"}
    /\ \E a \in 1 .. 2, p \in PayloadIds :
         \E route \in RouteArgs(p) :
           RequestBody("POST", "post_dex_exchange", p, route, DexBody(a, route))

post_dex_approve_body ==
    /\ body_op \in {"none", "done"}
    /\ \E a \in 1 .. 2, p \in PayloadIds :
         \E route \in RouteArgs(p) :
           RequestBody("POST", "post_dex_approve", p, route, DexBody(a, route))

\* the json_data of post_cex_exchange and of post_dex_confirm_tx: a map the
\* operation builds from its scalar arguments
ScalarBody(amount) == [amount |-> amount, route |-> NoRef]

post_cex_exchange_body ==
    /\ body_op \in {"none", "done"}
    /\ \E a \in 1 .. 2 :
         RequestBody("POST", "post_cex_exchange", NoRef, ListValue, ScalarBody(a))

post_dex_confirm_tx_body ==
    /\ body_op \in {"none", "done"}
    /\ \E a \in 1 .. 2 :
         RequestBody("POST", "post_dex_confirm_tx", NoRef, ListValue, ScalarBody(a))

\* one iteration of the loop of _request: session.request(json=safe_json_data)
\* and its outcome; the call then ends, or another attempt follows
send ==
    /\ body_op \notin {"none", "done"}
    /\ Len(sent) \in LoopRange(max_retries)
    /\ sent' = Append(sent, Serialised(safe_json_data, heap))
    /\ \E o \in BodyOutcomes :
         /\ wire' = [wire EXCEPT !.answer = o]
         /\ body_op' = IF Resend(wire.method, o, Len(sent), max_retries)
                       THEN body_op ELSE "done"
    /\ UNCHANGED <<payload, route_arg, json_data, safe_json_data, heap>>
    /\ UNCHANGED exceptBody

\* while the call is in flight, the holder of the map assigns one of its entries
caller_sets_entry ==
    /\ body_op \notin {"none", "done"}
    /\ json_data' = [json_data EXCEPT !.amount = 3 - json_data.amount]
    /\ UNCHANGED <<body_op, payload, route_arg, safe_json_data, sent, heap, wire>>
    /\ UNCHANGED exceptBody

\* while the call is in flight, the holder of a payload assigns one of its members
caller_sets_nested ==
    /\ body_op \notin {"none", "done"}
    /\ \E p \in PayloadIds :
         heap' = [heap EXCEPT ![p].bridge = 1 - heap[p].bridge]
    /\ UNCHANGED <<body_op, payload, route_arg, json_data, safe_json_data, sent, wire>>
    /\ UNCHANGED exceptBody

BodyNext ==
    \/ request_json
    \/ post_dex_exchange_body
    \/ post_dex_approve_body
    \/ post_cex_exchange_body
    \/ post_dex_confirm_tx_body
    \/ send
    \/ caller_sets_entry
    \/ caller_sets_nested

(***************************************************************************)
(* ExchangeBuilder (houdiniswap/builder.py).  builder holds the fields of  *)
(* the builder object; a text field is None or the sanitized text, amount  *)
(* is None or a number, route is None or a RouteDTO.                       *)
(***************************************************************************)
NewBuilder ==
    [exchange_type |-> "None", amount |-> NoneValue, from_token |-> NoneValue,
     to_token |-> NoneValue, address_to |-> NoneValue, address_from |-> NoneValue,
     receiver_tag |-> NoneValue, swap |-> NoneValue, quote_id |-> NoneValue,
     route |-> NoneValue]

\* the texts passed to a setter, and the values passed as amount and as route
SetterTexts == {GoodText, Str(<<>>), Str(<<" ">>), Str(<<"a", "NUL">>), NotAString}

SetterAmounts == {Num("pos"), Num("zero"), Num("neg"), NoneValue}

SetterRoutes == {RouteDTO("P"), DictValue("P"), NoneValue}

TextSetters ==
    {"from_token", "to_token", "address_to", "address_from", "receiver_tag",
     "swap", "quote_id"}

\* `not self._x`: None, or an empty text
Unset(v) == v.type = "NoneType" \/ (v.type = "str" /\ v.chars = <<>>)

\* _validate_cex returns (TRUE) or raises ValidationError (FALSE)
validate_cex(b) ==
    /\ b.amount.type # "NoneType"
    /\ ~Unset(b.from_token)
    /\ ~Unset(b.to_token)
    /\ ~Unset(b.address_to)

validate_dex_without_route(b) ==
    /\ b.amount.type # "NoneType"
    /\ ~Unset(b.from_token)
    /\ ~Unset(b.to_token)
    /\ ~Unset(b.address_from)
    /\ ~Unset(b.address_to)
    /\ ~Unset(b.swap)
    /\ ~Unset(b.quote_id)

\* _validate_dex returns (TRUE) or raises ValidationError (FALSE)
validate_dex(b) ==
    /\ b.amount.type # "NoneType"
    /\ ~Unset(b.from_token)
    /\ ~Unset(b.to_token)
    /\ ~Unset(b.address_from)
    /\ ~Unset(b.address_to)
    /\ ~Unset(b.swap)
    /\ ~Unset(b.quote_id)
    /\ ~Unset(b.route)

\* the latest call on the builder: its name, how it ended, and the client
\* operations it called
\* an argument the submission is not given
NotPassed == [type |-> "absent", chars |-> <<>>, num |-> "invalid"]

ArgFields == DOMAIN NewBuilder \ {"exchange_type"}

NoArgs == [f \in ArgFields |-> NotPassed]

\* the keyword arguments execute() hands to post_cex_exchange or to
\* post_dex_exchange, read from the fields of builder b
ExchangeArgs(b) ==
    LET passed == IF b.exchange_type = "cex"
                  THEN {"amount", "from_token", "to_token", "address_to", "receiver_tag"}
                  ELSE {"amount", "from_token", "to_token", "address_from", "address_to",
                        "swap", "quote_id", "route"}
    IN  [f \in ArgFields |-> IF f \in passed THEN b[f] ELSE NotPassed]

\* `args` are the arguments of the submission, `again` tells that the call
\* before this one was execute() too
BuilderCall(name, res, submitted) ==
    [call |-> name, res |-> res, submitted |-> submitted, args |-> NoArgs,
     again |-> FALSE]

\* an execute() call that reached the client with the arguments `args`
Submission(op, res, args) ==
    [BuilderCall("execute", res, <<op>>) EXCEPT !.args = args]

NoBuilderCall == BuilderCall("none", NoValue, <<>>)

BuilderIdle == builder = NewBuilder /\ lastbuild = NoBuilderCall

\* cex(), dex()
set_exchange_type ==
    /\ \E t \in {"cex", "dex"} :
         /\ builder' = [builder EXCEPT !.exchange_type = t]
         /\ lastbuild' = BuilderCall(t, Value(0), <<>>)
    /\ UNCHANGED exceptBuilder

\* amount(amount) with the assignment placed before the test
set_amountStoring ==
    /\ \E a \in SetterAmounts :
         /\ builder' = [builder EXCEPT !.amount = a]
         /\ lastbuild' = BuilderCall("amount",
                                     IF a.type = "NoneType" THEN Raised("TypeError")
                                     ELSE IF a.num # "pos" THEN Raised("ValidationError")
                                     ELSE Value(0), <<>>)
    /\ UNCHANGED exceptBuilder

\* amount(amount): `if amount <= 0: raise ValidationError`; None raises TypeError
set_amount ==
    /\ \E a \in SetterAmounts :
         IF a.type = "NoneType"
         THEN /\ lastbuild' = BuilderCall("amount", Raised("TypeError"), <<>>)
              /\ UNCHANGED builder
         ELSE IF a.num # "pos"
         THEN /\ lastbuild' = BuilderCall("amount", Raised("ValidationError"), <<>>)
              /\ UNCHANGED builder
         ELSE /\ lastbuild' = BuilderCall("amount", Value(0), <<>>)
              /\ builder' = [builder EXCEPT !.amount = a]
    /\ UNCHANGED exceptBuilder

\* from_token(token), ..., quote_id(quote_id): self._x = _sanitize_input(x)
set_text ==
    /\ \E f \in TextSetters, v \in SetterTexts :
         LET s == sanitize_input(v) IN
         IF s.ok
         THEN /\ lastbuild' = BuilderCall(f, Value(0), <<>>)
              /\ builder' = [builder EXCEPT ![f] = Str(s.value)]
         ELSE /\ lastbuild' = BuilderCall(f, Raised("ValidationError"), <<>>)
              /\ UNCHANGED builder
    /\ UNCHANGED exceptBuilder

\* route(route): `if not isinstance(route, RouteDTO): raise ValidationError`
set_route ==
    /\ \E r \in SetterRoutes :
         IF r.type # "RouteDTO"
         THEN /\ lastbuild' = BuilderCall("route", Raised("ValidationError"), <<>>)
              /\ UNCHANGED builder
         ELSE /\ lastbuild' = BuilderCall("route", Value(0), <<>>)
              /\ builder' = [builder EXCEPT !.route = r]
    /\ UNCHANGED exceptBuilder

\* how the client operation execute() calls can end
SubmissionResults ==
    {Value(0), Raised("ValidationError"), Raised("APIError"), Raised("NetworkError")}

execute ==
    /\ \E call \in
           IF builder.exchange_type = "None"
           THEN {BuilderCall("execute", Raised("ValidationError"), <<>>)}
           ELSE IF builder.exchange_type = "cex"
           THEN IF ~validate_cex(builder)
                THEN {BuilderCall("execute", Raised("ValidationError"), <<>>)}
                ELSE { Submission("post_cex_exchange", res, ExchangeArgs(builder)) :
                         res \in SubmissionResults }
           ELSE IF ~validate_dex(builder)
                THEN {BuilderCall("execute", Raised("ValidationError"), <<>>)}
                ELSE { Submission("post_dex_exchange", res, ExchangeArgs(builder)) :
                         res \in SubmissionResults } :
         lastbuild' = [call EXCEPT !.again = lastbuild.call = "execute"]
    /\ UNCHANGED builder
    /\ UNCHANGED exceptBuilder

BuilderNext ==
    \/ set_exchange_type
    \/ set_amount
    \/ set_text
    \/ set_route
    \/ execute

(***************************************************************************)
(* Thunks of execute_parallel that call get_cex_tokens() on the one        *)
(* client.  A worker thread runs the call in three steps, and another      *)
(* thread may run between any two of them: the cache test (client.py       *)
(* 677-686), the call of _request (689), the cache update (702-703).       *)
(* reader[i] is "start" before the cache test of thunk i, "missed" after   *)
(* a miss and "fetched" once _request has returned the token list.         *)
(***************************************************************************)
RaceIdle ==
    /\ reader = [i \in 1 .. MaxThunks |-> "start"]
    /\ network_calls = 0

\* execute_parallel([lambda: client.get_cex_tokens()] * n, max_workers)
parallel_reads ==
    /\ mainpc = "idle"
    /\ \E n \in 1 .. MaxThunks :
         /\ requests' = [i \in 1 .. n |-> "ret"]
         /\ tstate' = [i \in 1 .. n |-> "new"]
         /\ runs' = [i \in 1 .. n |-> 0]
         /\ results' = [i \in 1 .. n |-> None]
    /\ max_workers' \in 1 .. MaxWorkers
    /\ mainpc' = "submit"
    /\ threads' = 0
    /\ order' = <<>>
    /\ UNCHANGED <<reqVars, cacheVars, helperVars>>

\* thunk i reads the clock and tests the cache: a hit returns the stored list
reader_check ==
    /\ \E i \in Running :
         /\ reader[i] = "start"
         /\ IF CacheHit(CexKey, now)
            THEN /\ tstate' = [tstate EXCEPT ![i] = "finished"]
                 /\ reader' = reader
            ELSE /\ tstate' = tstate
                 /\ reader' = [reader EXCEPT ![i] = "missed"]
    /\ UNCHANGED <<requests, max_workers, mainpc, runs, threads, results, order>>
    /\ UNCHANGED <<cacheVars, network_calls, exceptRace>>

\* thunk i calls _request("GET", ENDPOINT_TOKENS), which returns the list
reader_request ==
    /\ \E i \in Running :
         /\ reader[i] = "missed"
         /\ reader' = [reader EXCEPT ![i] = "fetched"]
    /\ network_calls' = network_calls + 1
    /\ UNCHANGED <<parVars, cacheVars, exceptRace>>

\* thunk i stores (tokens, current_time) and returns the tokens
reader_store ==
    /\ \E i \in Running :
         /\ reader[i] = "fetched"
         /\ reader' = [reader EXCEPT ![i] = "start"]
         /\ tstate' = [tstate EXCEPT ![i] = "finished"]
         /\ token_cache' =
              IF cache_enabled
              THEN [token_cache EXCEPT ![CexKey] = Entry(i, now, CexParams)]
              ELSE token_cache
    /\ UNCHANGED <<requests, max_workers, mainpc, runs, threads, results, order>>
    /\ UNCHANGED <<cache_enabled, cache_ttl, now, fetches, last>>
    /\ UNCHANGED <<network_calls, exceptRace>>

DataIdle == DecodeIdle /\ CredIdle /\ BodyIdle /\ BuilderIdle /\ RaceIdle

HelpersIdle ==
    /\ PollIdle
    /\ IterIdle
    /\ LifeIdle
    /\ TypedIdle
    /\ DataIdle
    /\ consistent = TRUE
    /\ server_total = 0

PollInit == CoreIdle /\ HelpersIdle

PollNext ==
    \/ wait_for_status
    \/ poll_until_finished
    \/ wait_for_status_loop
    \/ poll_until_finished_loop

SpecPoll == PollInit /\ [][PollNext]_vars

\* every get_status call returns or raises
SpecPollFair ==
    SpecPoll /\ WF_vars(wait_for_status_loop) /\ WF_vars(poll_until_finished_loop)

IterInit ==
    /\ CoreIdle
    /\ PollIdle
    /\ IterIdle
    /\ LifeIdle
    /\ TypedIdle
    /\ DataIdle
    /\ consistent \in BOOLEAN
    /\ server_total \in 0 .. MaxTokens
    /\ consistent \/ server_total = 0

IterNext == iter_dex_tokens \/ get_all_dex_tokens \/ GeneratorNext

SpecIter == IterInit /\ [][IterNext]_vars

LifeInit == CoreIdle /\ HelpersIdle

SpecLife == LifeInit /\ [][LifeNext]_vars

TypedInit == CoreIdle /\ HelpersIdle

SpecTyped == TypedInit /\ [][TypedNext]_vars

DecodeInit == CoreIdle /\ HelpersIdle

SpecDecode == DecodeInit /\ [][DecodeNext]_vars

CredInit == CoreIdle /\ HelpersIdle

SpecCred == CredInit /\ [][CredNext]_vars

BodyInit ==
    /\ CoreIdle
    /\ PollIdle /\ IterIdle /\ LifeIdle /\ TypedIdle
    /\ consistent = TRUE /\ server_total = 0
    /\ DecodeIdle /\ CredIdle /\ BuilderIdle /\ RaceIdle
    /\ body_op = "none"
    /\ payload = NoRef
    /\ route_arg = ListValue
    /\ json_data = NoMap
    /\ safe_json_data = NoMap
    /\ sent = <<>>
    /\ wire = NoWire
    /\ heap \in [PayloadIds -> Payloads]

SpecBody == BodyInit /\ [][BodyNext]_vars

BuilderInit == CoreIdle /\ HelpersIdle

SpecBuilder == BuilderInit /\ [][BuilderNext]_vars

CacheInit ==
    /\ cache_enabled \in BOOLEAN
    /\ cache_ttl \in (MaxTTL - 1) .. MaxTTL
    /\ CacheNew
    /\ ParIdle
    /\ max_retries = MaxRetries
    /\ pc = "idle"
    /\ attempt = 0
    /\ calls = 0
    /\ sleeps = <<>>
    /\ trace = <<>>
    /\ lastOut = NoOutcome
    /\ last_exception = 0
    /\ result = NoResult
    /\ HelpersIdle

CacheNext == get_cex_tokens \/ get_dex_tokens \/ clear_cache \/ SetCacheEnabled \/ Tick

SpecCache == CacheInit /\ [][CacheNext]_vars

\* the default of the cache_enabled parameter of the constructor
DefaultCacheEnabled == FALSE

\* a client constructed without any cache argument
DefaultInit ==
    /\ cache_enabled = DefaultCacheEnabled
    /\ cache_ttl = DEFAULT_CACHE_TTL
    /\ CacheNew
    /\ ParIdle
    /\ max_retries = MaxRetries
    /\ pc = "idle"
    /\ attempt = 0
    /\ calls = 0
    /\ sleeps = <<>>
    /\ trace = <<>>
    /\ lastOut = NoOutcome
    /\ last_exception = 0
    /\ result = NoResult
    /\ HelpersIdle

DefaultNext == get_cex_tokens \/ get_dex_tokens \/ clear_cache \/ Tick

SpecDefault == DefaultInit /\ [][DefaultNext]_vars

ParInit ==
    /\ ParIdle
    /\ max_retries = MaxRetries
    /\ pc = "idle"
    /\ attempt = 0
    /\ calls = 0
    /\ sleeps = <<>>
    /\ trace = <<>>
    /\ lastOut = NoOutcome
    /\ last_exception = 0
    /\ result = NoResult
    /\ cache_enabled = FALSE
    /\ cache_ttl = MaxTTL
    /\ CacheNew
    /\ HelpersIdle

ParNext ==
    \/ execute_parallel
    \/ Submit
    \/ SubmitDone
    \/ WorkerStart
    \/ ThunkDone
    \/ Collect
    \/ ReturnResults

SpecParallel == ParInit /\ [][ParNext]_vars

\* one client with caching enabled and an empty cache
RaceInit ==
    /\ ParIdle
    /\ max_retries = MaxRetries
    /\ pc = "idle"
    /\ attempt = 0
    /\ calls = 0
    /\ sleeps = <<>>
    /\ trace = <<>>
    /\ lastOut = NoOutcome
    /\ last_exception = 0
    /\ result = NoResult
    /\ cache_enabled = TRUE
    /\ cache_ttl = MaxTTL
    /\ CacheNew
    /\ HelpersIdle

RaceNext ==
    \/ parallel_reads
    \/ Submit
    \/ SubmitDone
    \/ WorkerStart
    \/ reader_check
    \/ reader_request
    \/ reader_store
    \/ Collect
    \/ ReturnResults

SpecRace == RaceInit /\ [][RaceNext]_vars

Init ==
    /\ RequestInit
    /\ cache_enabled = FALSE
    /\ cache_ttl = MaxTTL
    /\ CacheNew
    /\ ParIdle
    /\ HelpersIdle

Next == RequestCall \/ Attempt \/ PostLoop

Spec == Init /\ [][Next]_vars

(***************************************************************************)
(* Properties of the request engine.                                       *)
(***************************************************************************)
ServerErrors ==
    { HTTP_STATUS_INTERNAL_SERVER_ERROR, HTTP_STATUS_BAD_GATEWAY,
      HTTP_STATUS_SERVICE_UNAVAILABLE, HTTP_STATUS_GATEWAY_TIMEOUT }

\* the decoded body of a success response: response.json(), or the wrapped text
Decoded(b) == IF b = "text" THEN "wrapped_text" ELSE b

IsResp(o, s) == o.kind = "resp" /\ o.status = s

IsSuccess(o) == o.kind = "resp" /\ o.status < HTTP_STATUS_BAD_REQUEST

\* every transport outcome of the call before the latest one was a 500/502/503/504
Only5xxBefore ==
    \A i \in 1 .. (Len(trace) - 1) :
        trace[i].kind = "resp" /\ trace[i].status \in ServerErrors

\* every transport outcome of the call so far was a 500/502/503/504
Only5xx ==
    /\ Len(trace) >= 1
    /\ \A i \in 1 .. Len(trace) :
        trace[i].kind = "resp" /\ trace[i].status \in ServerErrors

\* every transport outcome of the call so far was a transport failure
OnlyFailures ==
    /\ Len(trace) >= 1
    /\ \A i \in 1 .. Len(trace) : trace[i].kind = "fail"

\* one sleep after every transport invocation but the latest one
NoSleepAfterLast == Len(sleeps) = calls - 1

\* C1: one call of _request makes at least 1 and at most max_retries + 1
\* transport invocations before it returns or raises, whatever the outcomes are.
C1_AttemptBudget ==
    max_retries >= 0 =>
        /\ calls = Len(trace)
        /\ calls <= max_retries + 1
        /\ pc = "done" => calls >= 1

C1_Witness ==
    /\ pc = "done"
    /\ max_retries >= 1
    /\ calls = max_retries + 1
    /\ result.err = "HoudiniSwapError"

\* C2 (as claimed): K <= max_retries responses 500/502/503/504 followed by a
\* success give K + 1 invocations and the decoded success body; max_retries + 1
\* such responses give max_retries + 1 invocations and APIError with the status
\* code of the last response.
C2_Claim ==
    /\ (Len(trace) >= 1 /\ Only5xxBefore /\ IsSuccess(lastOut)) =>
          /\ pc = "done"
          /\ calls = Len(trace)
          /\ result.act = "return"
          /\ result.val = Decoded(lastOut.body)
    /\ (Only5xx /\ Len(trace) = max_retries + 1) =>
          /\ pc = "done"
          /\ calls = max_retries + 1
          /\ result.err = "APIError"
          /\ result.status = lastOut.status

\* C3: a 401 response, on the first or on any later attempt, ends the call:
\* AuthenticationError is raised, with no sleep after it and no further
\* transport invocation, whatever max_retries is.
C3_UnauthorizedIsFinal ==
    /\ IsResp(lastOut, HTTP_STATUS_UNAUTHORIZED) =>
          /\ pc = "done"
          /\ result.act = "raise"
          /\ result.err = "AuthenticationError"
          /\ NoSleepAfterLast
    /\ \A i \in 1 .. Len(trace) :
          (trace[i].kind = "resp" /\ trace[i].status = HTTP_STATUS_UNAUTHORIZED)
              => i = Len(trace)

C3_Witness ==
    /\ IsResp(lastOut, HTTP_STATUS_UNAUTHORIZED)
    /\ calls >= 2
    /\ calls <= max_retries
    /\ pc = "done"

\* the statuses >= 400 that are neither 401, 429 nor 500/502/503/504
IsOtherHttpError(o) ==
    /\ o.kind = "resp"
    /\ o.status >= HTTP_STATUS_BAD_REQUEST
    /\ o.status \notin ({HTTP_STATUS_UNAUTHORIZED} \cup retryable_statuses)

\* C4 (as claimed): a response with any other status >= 400 is never retried,
\* whatever its body is: the invocation is the last one, no sleep follows it and
\* APIError with the response's status code is raised.
C4_Claim ==
    IsOtherHttpError(lastOut) =>
        /\ pc = "done"
        /\ result.err = "APIError"
        /\ result.status = lastOut.status
        /\ NoSleepAfterLast

\* C5: a transport failure is retried while attempts remain; a later success
\* returns that attempt's decoded body; max_retries + 1 failures raise
\* NetworkError caused by the last failure, after max_retries + 1 invocations.
C5_NetworkErrorRetried ==
    /\ (lastOut.kind = "fail" /\ calls <= max_retries) =>
          /\ pc = "loop"
          /\ attempt = calls
          /\ Len(sleeps) = calls
    /\ (lastOut.kind = "fail" /\ calls = max_retries + 1) =>
          /\ pc = "done"
          /\ result.err = "NetworkError"
          /\ result.cause = calls
    /\ (OnlyFailures /\ pc = "done") =>
          /\ calls = max_retries + 1
          /\ result.err = "NetworkError"
          /\ result.cause = max_retries + 1
    /\ result.err = "NetworkError" =>
          /\ lastOut.kind = "fail"
          /\ calls = max_retries + 1
    /\ (IsSuccess(lastOut) /\ \E i \in 1 .. Len(trace) : trace[i].kind = "fail") =>
          /\ pc = "done"
          /\ result.act = "return"
          /\ result.val = Decoded(lastOut.body)

C5_Witness ==
    /\ pc = "done"
    /\ max_retries >= 1
    /\ OnlyFailures
    /\ result.err = "NetworkError"
    /\ result.cause = max_retries + 1

\* C6 (as claimed): a 429 is retried while attempts remain; a 429 answer to the
\* last allowed attempt raises APIError with status_code 429 and the body's
\* message, or "Rate limit exceeded" when the body has no message or is not
\* valid JSON, whatever shape the body has.
C6_Claim ==
    IsResp(lastOut, HTTP_STATUS_TOO_MANY_REQUESTS) =>
        /\ calls <= max_retries => (pc = "loop" /\ Len(sleeps) = calls)
        /\ calls = max_retries + 1 =>
              /\ pc = "done"
              /\ result.err = "APIError"
              /\ result.status = HTTP_STATUS_TOO_MANY_REQUESTS
              /\ result.msg =
                   IF lastOut.body = "obj_msg"
                   THEN "body.message. Please wait before retrying."
                   ELSE "Rate limit exceeded. Please wait before retrying."

(***************************************************************************)
(* Properties of the token cache.                                          *)
(***************************************************************************)
\* a step that is a token read which computed a cache key
IsRead(l) == l.op \in {"cex", "dex"} /\ l.key # NoKey

\* C7: with caching enabled and TTL T, a cached read whose key holds an entry
\* younger than T makes no network call and returns the stored value; a read
\* at age >= T (or with no entry) makes one network call and, when that call
\* gives a token list, overwrites the entry with the list and the call's time.
C7_CacheWithinTTL ==
    [][ (last' # last /\ IsRead(last') /\ cache_enabled) =>
          LET k == last'.key
              e == token_cache[k]
          IN
          /\ (e # NoEntry /\ now - e.time < cache_ttl) =>
                /\ last'.reqs = 0
                /\ last'.res = Value(e.data)
                /\ token_cache' = token_cache
          /\ (e = NoEntry \/ now - e.time >= cache_ttl) =>
                /\ last'.reqs = 1
                /\ last'.res.kind = "value" =>
                      /\ token_cache'[k].data = last'.res.data
                      /\ token_cache'[k].time = now
                      /\ last'.res.data # e.data
                      /\ \A j \in Keys \ {k} : token_cache'[j] = token_cache[j]
      ]_vars

C7_Witness ==
    /\ cache_enabled
    /\ last.op = "dex"
    /\ last.reqs = 0
    /\ last.res.kind = "value"
    /\ token_cache[last.key].data = last.res.data
    /\ now - token_cache[last.key].time >= 1

\* C8: clear_cache empties the mapping whatever the state is, and the cached
\* read that follows it makes a network call, whatever its key is.
C8_ClearEmpties ==
    /\ [](last.op = "clear" => StoredKeys(token_cache) = {})
    /\ [][ (last.op = "clear" /\ last' # last /\ IsRead(last')) => last'.reqs = 1 ]_vars

C8_Witness ==
    /\ last.op = "clear"
    /\ last.had
    /\ ~cache_enabled
    /\ StoredKeys(token_cache) = {}

(***************************************************************************)
(* Properties of execute_parallel.                                         *)
(***************************************************************************)
\* C9: for any N >= 0 thunks, any max_workers >= 1 and any completion order,
\* the returned list has length N and position i holds the return value of
\* thunk i or the exception it raised; a raising thunk neither ends the call
\* nor keeps another thunk's result out of the list.
C9_ResultsInOrder ==
    /\ Len(results) = Len(requests)
    /\ \A k \in 1 .. Len(order) : results[order[k]] = Outcome(order[k])
    /\ mainpc = "returned" =>
          \A i \in 1 .. Len(requests) : results[i] = Outcome(i)

C9_Witness ==
    /\ mainpc = "returned"
    /\ Len(requests) = MaxThunks
    /\ requests[1] = "ret"
    /\ requests[2] = "exc"
    /\ order[1] = 2
    /\ results[2] = [kind |-> "exc", of |-> 2]

\* C10: every submitted thunk is run exactly once, never more than max_workers
\* thunks run at the same instant, and the call returns only when every thunk
\* has finished.
C10_BoundedPool ==
    /\ Cardinality(Running) <= max_workers
    /\ \A i \in 1 .. Len(requests) :
          /\ runs[i] <= 1
          /\ tstate[i] \in {"running", "finished"} => runs[i] = 1
    /\ mainpc = "returned" =>
          \A i \in 1 .. Len(requests) : tstate[i] = "finished" /\ runs[i] = 1

C10_Witness ==
    /\ max_workers >= 2
    /\ Cardinality(Running) = max_workers
    /\ Queued # {}

(***************************************************************************)
(* Properties of the polling helpers.                                      *)
(***************************************************************************)
\* the statuses a polling call waits for
IsAwaited(s) ==
    IF poll_op = "wait_for_status"
    THEN s = target_status
    ELSE s \in {FINISHED, EXPIRED, FAILED, REFUNDED}

\* every sleep of the call so far was a sleep of poll_interval
SleepsOfPollInterval == \A i \in 1 .. Len(psleeps) : psleeps[i] = poll_interval

\* the error kinds of houdiniswap/exceptions.py
SDKErrors ==
    {"HoudiniSwapError", "AuthenticationError", "APIError", "ValidationError",
     "NetworkError"}

\* C11: a polling call returns the first fetched Status that is awaited
\* (equal to target_status for wait_for_status, one of FINISHED, EXPIRED,
\* FAILED, REFUNDED for poll_until_finished).  Whenever the loop is about to
\* fetch again, the latest fetched status was not awaited and one sleep of
\* poll_interval followed each fetch; a fetch that gives an awaited status
\* returns that Status at once; so the returned Status is the first awaited
\* one, the number of get_status calls is its position, and one sleep of
\* poll_interval lies between two consecutive fetches.
C11_FirstMatchReturned ==
    /\ [](/\ (pollpc = "loop" /\ polls > 0) =>
                /\ ~IsAwaited(status)
                /\ Len(psleeps) = polls
          /\ presult.kind = "return" =>
                /\ presult.status = status
                /\ IsAwaited(status)
                /\ Len(psleeps) = polls - 1
          /\ SleepsOfPollInterval)
    /\ [][(polls' = polls + 1 /\ status' # NoStatus /\ IsAwaited(status'))
            => presult' = PollReturn(status')]_vars

C11_Witness ==
    /\ poll_op = "wait_for_status"
    /\ presult.kind = "return"
    /\ polls = 3
    /\ psleeps = <<poll_interval, poll_interval>>

\* C12: a polling call that raises TimeoutError does so after a fetch whose
\* status is not awaited and with the elapsed time above the timeout; the
\* error is not one of the SDK's error kinds and its message names the status
\* of the last fetch; the loop sleeps again only when the elapsed time at the
\* test was not above the timeout; and a call that is over fetches and
\* sleeps no more.
C12_TimeoutRaised ==
    /\ [](presult.err = "TimeoutError" =>
            /\ presult.kind = "raise"
            /\ pollpc = "done"
            /\ "TimeoutError" \notin SDKErrors
            /\ elapsed > timeout
            /\ ~IsAwaited(status)
            /\ presult.current = status
            /\ Len(psleeps) = polls - 1)
    /\ [][/\ Len(psleeps') = Len(psleeps) + 1 =>
                elapsed' - poll_interval <= timeout
          /\ (pollpc = "done" /\ pollpc' = "done") =>
                (polls' = polls /\ psleeps' = psleeps)]_vars

C12_Witness ==
    /\ presult.err = "TimeoutError"
    /\ polls = 2
    /\ status = WAITING
    /\ poll_op = "wait_for_status"
    /\ target_status = FINISHED

\* C13: poll_until_finished returns on the first fetched status that is one
\* of FINISHED, EXPIRED, FAILED, REFUNDED, DELETED.
C13_Claim ==
    (/\ poll_op = "poll_until_finished"
     /\ status \in {FINISHED, EXPIRED, FAILED, REFUNDED, DELETED})
    => presult = PollReturn(status)

\* C14 as stated: a polling call makes at most floor(timeout / poll_interval)
\* + 2 status fetches.
C14_Claim == polls <= (timeout \div poll_interval) + 2

\* C14: every polling call ends, and it makes at most
\* floor(timeout / poll_interval) + 2 status fetches when timeout >= 0 and
\* one status fetch when timeout < 0.
C14_Terminates ==
    /\ [](polls <= IF timeout >= 0 THEN (timeout \div poll_interval) + 2 ELSE 1)
    /\ (pollpc = "loop") ~> (pollpc = "done")

C14_Witness ==
    /\ pollpc = "done"
    /\ timeout = 2
    /\ poll_interval = 1
    /\ polls = 4
    /\ presult.err = "TimeoutError"

(***************************************************************************)
(* Properties of iter_dex_tokens.                                          *)
(***************************************************************************)
\* ceil(a / b) for b > 0
Ceil(a, b) == -((-a) \div b)

\* C15: against a consistent server with N tokens and page_size >= 1, the
\* generator requests the pages 1, 2, 3, ... in order, hands out the tokens
\* 1 .. N in order, each once, never raises, and has made exactly
\* max(1, ceil(N / page_size)) page fetches when it ends.
C15_ConsistentServer ==
    (consistent /\ iterpc # "none" /\ gen_page_size >= 1) =>
        /\ fetched = TokenRun(0, Len(fetched))
        /\ yielded = TokenRun(0, Len(yielded))
        /\ Len(yielded) <= server_total
        /\ Len(fetched) <= Max(1, Ceil(server_total, gen_page_size))
        /\ iterpc # "raised"
        /\ iterpc = "done" =>
             /\ Len(yielded) = server_total
             /\ Len(fetched) = Max(1, Ceil(server_total, gen_page_size))

C15_Witness ==
    /\ consistent
    /\ iterpc = "done"
    /\ server_total = 3
    /\ gen_page_size = 2
    /\ fetched = <<1, 2>>
    /\ yielded = <<1, 2, 3>>

\* C16: whatever pages and counts the server reports, the generator makes
\* at most max(1, ceil(C / page_size)) page fetches, C being the largest
\* count reported to it; a fetched page without tokens ends it at once, and
\* once the tokens of a page whose number has reached
\* ceil(count / page_size) are handed out, the next request ends it with no
\* further fetch.
C16_FiniteIteration ==
    /\ [](gen_page_size >= 1 =>
            Len(fetched) <= Max(1, Ceil(max_count, gen_page_size)))
    /\ [][/\ (Len(fetched') = Len(fetched) + 1 /\ iterpc' # "raised"
              /\ gen_tokens' = <<>>) => iterpc' = "done"
          /\ (/\ iterations' = iterations
              /\ iterpc = "yielded"
              /\ gen_pos = Len(gen_tokens)
              /\ gen_page >= Ceil(gen_count, gen_page_size))
             => (iterpc' = "done" /\ fetched' = fetched)]_vars

C16_Witness ==
    /\ ~consistent
    /\ iterpc = "done"
    /\ gen_page_size = 2
    /\ max_count = 3
    /\ fetched = <<1, 2>>
    /\ yielded = <<1>>

\* C17: a generator that was made and not yet asked for a token has fetched
\* nothing; the first page a generator fetches is page 1, whatever the
\* generator before it did; within one generator a page is fetched only by
\* a request made after every token of the page before was handed out, and
\* that request hands out at most one token.
C17_LazyRestartable ==
    /\ [](/\ iterpc = "created" => (fetched = <<>> /\ yielded = <<>>)
          /\ fetched # <<>> => fetched[1] = 1)
    /\ [][/\ iterations' = iterations + 1 =>
                (iterpc' = "created" /\ fetched' = <<>> /\ yielded' = <<>>)
          /\ (iterations' = iterations /\ fetched' # fetched) =>
                /\ iterpc = "created"
                   \/ (iterpc = "yielded" /\ gen_pos = Len(gen_tokens))
                /\ Len(fetched') = Len(fetched) + 1
                /\ Len(yielded') <= Len(yielded) + 1]_vars

C17_Witness ==
    /\ iterations = 2
    /\ prev = [pc |-> "yielded", page |-> 2]
    /\ iterpc = "yielded"
    /\ fetched = <<1, 2>>
    /\ yielded = <<1, 2, 3>>

(***************************************************************************)
(* Properties of close and the context manager.                            *)
(***************************************************************************)
\* the calls that release the session
Releases == {"close", "exit", "exit_exc"}

\* C18: session.close is invoked exactly once, by the first close() or
\* __exit__ (later ones invoke nothing), and a with statement whose block
\* raised lets the exception propagate.
C18_ReleasedOnce ==
    /\ session_close_calls =
         IF \E i \in 1 .. Len(lifelog) : lifelog[i] \in Releases THEN 1 ELSE 0
    /\ session_closed = (session_close_calls = 1)
    /\ with_result # "suppressed"
    /\ (lifelog # <<>> /\ lifelog[Len(lifelog)] = "exit_exc") =>
         with_result = "propagated"

C18_Witness ==
    /\ lifelog = <<"enter", "exit_exc", "close", "enter", "exit">>
    /\ session_close_calls = 1
    /\ with_result = "ok"

(***************************************************************************)
(* Properties of the input validation of the typed operations.             *)
(***************************************************************************)
\* a malformed input: an amount that does not parse or is not > 0; any other
\* scalar that is given and is not a string, is empty after trimming, or
\* contains a newline or a NUL
IsMalformed(k, v) ==
    IF k = "amount"
    THEN v.type \notin {"int", "float", "str"} \/ v.num # "pos"
    ELSE /\ v # NoneValue
         /\ \/ v.type # "str"
            \/ Strip(v.chars) = <<>>
            \/ \E i \in 1 .. Len(v.chars) : v.chars[i] \in {"LF", "NUL"}

FailedBeforeRequest ==
    lastcall.res = Raised("ValidationError") /\ ~lastcall.sent

\* C19: a typed operation called with a malformed scalar raises
\* ValidationError without any transport invocation.
C19_Claim ==
    (\E k \in DOMAIN lastcall.args : IsMalformed(k, lastcall.args[k]))
    => FailedBeforeRequest

\* C20: post_cex_exchange called with a destination address of fewer than
\* 10 characters raises ValidationError before any network call.
C20_Claim ==
    (/\ lastcall.op = "post_cex_exchange"
     /\ lastcall.args.address_to.type = "str"
     /\ Len(lastcall.args.address_to.chars) < 10)
    => FailedBeforeRequest

(***************************************************************************)
(* Properties of the decoding of responses.                                *)
(***************************************************************************)
\* the shapes of body each operation decodes into its record type
ExpectedShapes(op) ==
    IF op \in {"get_cex_tokens", "get_dex_quote", "post_dex_approve", "get_min_max"}
    THEN {"array"}
    ELSE IF op \in {"get_dex_tokens", "get_status"}
    THEN {"object"}
    ELSE {"array", "object"}

\* C21: a typed operation whose successful response has a body of unexpected
\* shape (an array for an object, an object for an array, or a scalar) raises
\* APIError and returns no record.
C21_Claim ==
    (lastdecode.op # "none" /\ lastdecode.body.shape \notin ExpectedShapes(lastdecode.op))
        => lastdecode.res = Raised("APIError")

\* C26: decoding a status payload succeeds for every code of the enumeration
\* (-1 .. 8) and yields the member with that code; for every other integer code
\* it raises ValidationError and never yields a default state.
C26_StatusCodes ==
    (/\ lastdecode.op = "Status.from_dict"
     /\ lastdecode.body.shape = "object"
     /\ lastdecode.body.has_id
     /\ lastdecode.body.has_status) =>
        IF lastdecode.body.code \in StatusNEW .. DELETED
        THEN /\ lastdecode.res.kind = "value"
             /\ MemberValue[lastdecode.res.member] = lastdecode.body.code
        ELSE lastdecode.res = Raised("ValidationError")

C26_Witness ==
    /\ lastdecode.op = "Status.from_dict"
    /\ lastdecode.body.has_id
    /\ lastdecode.body.has_status
    /\ lastdecode.body.code = 999
    /\ lastdecode.res = Raised("ValidationError")

(***************************************************************************)
(* Properties of construction and of the credentials.                      *)
(***************************************************************************)
\* the text t has the non-empty text k inside it
Contains(t, k) ==
    \E i \in 1 .. (Len(t) - Len(k) + 1) : SubSeq(t, i, i + Len(k) - 1) = k

Colons(t) == Cardinality({ i \in 1 .. Len(t) : t[i] = ":" })

\* C22: the stored credentials cannot be read back from the client: api_key
\* and api_secret raise AttributeError, and neither repr(client) nor any other
\* attribute of the client yields the key or the secret.
C22_Claim ==
    /\ lastread.name \in {"api_key", "api_secret"} => lastread.res = AttrError
    /\ \A t \in lastread.res.texts :
          ~Contains(t, client._api_key) /\ ~Contains(t, client._api_secret)

\* C23: a key or a secret that contains ':' makes the constructor raise
\* ValidationError, with no client object, no session and no network call; so
\* the Authorization value of every constructed client has exactly one ':'.
C23_ColonRefused ==
    /\ (HasColon(client.api_key) \/ HasColon(client.api_secret)) =>
          /\ client.res = Raised("ValidationError")
          /\ ~client.constructed
          /\ client.sessions = 0
          /\ calls = 0
    /\ client.constructed => Colons(client.Authorization) = 1

C23_Witness ==
    /\ HasColon(client.api_secret)
    /\ ~HasColon(client.api_key)
    /\ ~Falsy(client.api_key)
    /\ Strip(client.api_key.chars) # <<>>
    /\ client.res = Raised("ValidationError")

(***************************************************************************)
(* Properties of the maps passed to _request and of the route payload.     *)
(***************************************************************************)
InFlight == body_op \notin {"none", "done"}

\* the operations that take a route
RouteOps == {"post_dex_exchange", "post_dex_approve"}

\* C24: _request works on its own copies of the caller's maps, so every
\* attempt of one call sends the same content as the first attempt, whether
\* the caller changes a top-level entry or a nested value between attempts.
C24_Claim == \A i \in 1 .. Len(sent) : sent[i] = sent[1]

\* C27: a RouteDTO decoded from the payload P converts back to exactly P, and
\* post_dex_exchange and post_dex_approve put that payload, unmodified, in the
\* request body as the route field.
C27_RouteOpaque ==
    /\ [](InFlight /\ body_op \in RouteOps =>
            /\ route_arg.type = "RouteDTO" => to_dict(route_arg) = payload
            /\ json_data.route = payload
            /\ safe_json_data.route = payload)
    /\ [][/\ (body_op \in RouteOps /\ Len(sent') > Len(sent)
               => sent'[Len(sent')].route = heap[payload])
          /\ (~InFlight /\ InFlight' => heap' = heap)]_vars

C27_Witness ==
    /\ body_op = "post_dex_approve"
    /\ route_arg.type = "RouteDTO"
    /\ payload = "Q"
    /\ Len(sent) = 2
    /\ sent[2].route = heap["Q"]
    /\ sent[1].route # sent[2].route

(***************************************************************************)
(* Properties of the builder.                                              *)
(***************************************************************************)
IsSet(f) == builder[f].type # "NoneType"

CexComplete == \A f \in {"amount", "from_token", "to_token", "address_to"} : IsSet(f)

DexComplete ==
    /\ CexComplete
    /\ \A f \in {"address_from", "swap", "quote_id", "route"} : IsSet(f)

\* C25: after any setter calls, execute() makes exactly one client submission
\* (post_cex_exchange for cex, post_dex_exchange for dex) if and only if the
\* exchange type and every field that type requires are set; otherwise it
\* raises ValidationError and makes no client call.
C25_ExecuteSubmitsOnce ==
    lastbuild.call = "execute" =>
        IF \/ builder.exchange_type = "cex" /\ CexComplete
           \/ builder.exchange_type = "dex" /\ DexComplete
        THEN lastbuild.submitted = <<"post_" \o builder.exchange_type \o "_exchange">>
        ELSE lastbuild.submitted = <<>> /\ lastbuild.res = Raised("ValidationError")

C25_Witness ==
    /\ lastbuild.call = "execute"
    /\ builder.exchange_type = "dex"
    /\ DexComplete
    /\ ~IsSet("receiver_tag")
    /\ lastbuild.submitted = <<"post_dex_exchange">>
    /\ lastbuild.res = Value(0)

(***************************************************************************)
(* Properties of a client constructed with the default arguments.          *)
(***************************************************************************)
\* C28: get_cex_tokens is cached by default: on a client constructed without
\* any cache argument, a get_cex_tokens call that follows one that returned a
\* list, within the default TTL, returns that list and makes no network call.
C28_Claim ==
    [][ (/\ last.op = "cex"
         /\ last.res.kind = "value"
         /\ now < cache_ttl
         /\ last' # last
         /\ last'.op = "cex") =>
          /\ last'.reqs = 0
          /\ last'.res = last.res ]_vars

\* the failure classes of the generic backoff: 500/502/503/504, a transport
\* failure, an unexpected exception
IsGenericFailure(o) ==
    \/ o.kind \in {"fail", "unexp"}
    \/ o.kind = "resp" /\ o.status \in ServerErrors

\* float() parses the Retry-After header of the response
ParseableRetryAfter(o) == o.ra \in {"seconds", "rejected"}

\* the value float() gives for a parseable Retry-After header
RetryAfterValue(o) ==
    IF o.ra = "seconds" THEN RetryAfterSeconds ELSE RejectedRetryAfter

\* an iteration at index i met outcome o and the loop goes on to index i + 1
RetriedAt(i) ==
    /\ pc = "loop"
    /\ pc' = "loop"
    /\ attempt = i
    /\ attempt' = i + 1
    /\ calls' = calls + 1

\* C29 (as claimed): the wait before the retry that follows 0-indexed attempt i
\* is the Retry-After value for a 429 with a parseable Retry-After,
\* 2 * backoff_factor * 2^i for a 429 without one, and backoff_factor * 2^i for
\* a 500/502/503/504, a transport failure or an unexpected exception, where i
\* counts the earlier transport invocations of the call, whatever they met.
C29_Claim ==
    [][\A i \in 0 .. MaxRetries :
          RetriedAt(i) =>
              /\ i = Len(trace)
              /\ Len(sleeps') = Len(sleeps) + 1
              /\ LET o == lastOut'
                     w == sleeps'[Len(sleeps')]
                 IN /\ (IsResp(o, HTTP_STATUS_TOO_MANY_REQUESTS) /\ ParseableRetryAfter(o))
                          => w = RetryAfterValue(o)
                    /\ (IsResp(o, HTTP_STATUS_TOO_MANY_REQUESTS) /\ ~ParseableRetryAfter(o))
                          => w = 2 * retry_backoff_factor * Pow2(i)
                    /\ IsGenericFailure(o) => w = retry_backoff_factor * Pow2(i)]_vars

\* the latest transport invocation raised an exception that is neither a
\* RequestException nor an APIError / AuthenticationError
UnexpectedLast == lastOut.kind = "unexp"

\* C30: an unexpected exception of the transport call is retried with the
\* generic backoff while attempts remain; when the last allowed attempt fails
\* this way too, _request raises HoudiniSwapError whose message is built from
\* that exception's message, after exactly max_retries + 1 invocations.
C30_UnexpectedRetriedThenWrapped ==
    /\ (UnexpectedLast /\ calls <= max_retries) =>
          /\ pc = "loop"
          /\ attempt = calls
          /\ Len(sleeps) = calls
          /\ sleeps[calls] = retry_backoff_factor * Pow2(calls - 1)
    /\ (UnexpectedLast /\ calls > max_retries) =>
          /\ pc = "done"
          /\ calls = max_retries + 1
          /\ result.act = "raise"
          /\ result.err = "HoudiniSwapError"
          /\ result.msg = "Unexpected error"
          /\ result.cause = calls

C30_Witness ==
    /\ pc = "done"
    /\ max_retries >= 1
    /\ UnexpectedLast
    /\ calls = max_retries + 1
    /\ trace[calls - 1].kind = "unexp"
    /\ sleeps[calls - 1] = retry_backoff_factor * Pow2(calls - 2)
    /\ result.err = "HoudiniSwapError"
    /\ result.cause = calls

\* C31 (as claimed): in every execution of _request the number of sleeps is the
\* number of transport invocations minus one.
C31_Claim == pc = "done" => Len(sleeps) = calls - 1

\* C31 (amended): sleeps occur only between two transport invocations of the
\* call: none before the first invocation, one after every invocation that is
\* followed by another one, none after the last; a call that has made at least
\* one invocation has slept one time less than it has invoked the transport,
\* and a call without any invocation has not slept.
C31_SleepsOnlyBetween ==
    /\ calls = 0 => sleeps = <<>>
    /\ (pc = "loop" /\ calls >= 1) =>
          /\ Len(sleeps) = calls
          /\ attempt \in LoopRange(max_retries)
    /\ (pc = "done" /\ calls >= 1) => Len(sleeps) = calls - 1

C31_Witness ==
    /\ pc = "done"
    /\ calls = 3
    /\ Len(sleeps) = 2
    /\ result.act = "return"

\* the attempt budget of the call is used up by the latest invocation
BudgetExhausted == max_retries >= 0 /\ calls = max_retries + 1

\* C32 (as claimed): 429, 500/502/503/504, transport failures and unexpected
\* exceptions share the one budget of max_retries + 1 invocations, and when it
\* is used up the error raised depends on the last outcome alone: APIError for
\* a 429 or 5xx response, NetworkError for a transport failure, the generic
\* HoudiniSwapError for an unexpected exception.
C32_Claim ==
    /\ max_retries >= 0 => calls <= max_retries + 1
    /\ BudgetExhausted =>
          /\ (lastOut.kind = "resp" /\ lastOut.status \in retryable_statuses) =>
                (pc = "done" /\ result.act = "raise" /\ result.err = "APIError")
          /\ lastOut.kind = "fail" =>
                (pc = "done" /\ result.act = "raise" /\ result.err = "NetworkError")
          /\ lastOut.kind = "unexp" =>
                (pc = "done" /\ result.act = "raise" /\ result.err = "HoudiniSwapError")

RequestErrors == {"AuthenticationError", "APIError", "NetworkError", "HoudiniSwapError"}

\* C33: for max_retries >= 0 the code after the loop of _request is never
\* reached: the loop is left by a return of the decoded body or by a raise of
\* AuthenticationError, APIError, NetworkError or HoudiniSwapError, after at
\* least one invocation; "Request failed after all retries" is raised only for
\* max_retries < 0, and then without any transport invocation.
C33_PostLoopUnreachable ==
    /\ (max_retries >= 0 /\ pc = "loop") => attempt \in LoopRange(max_retries)
    /\ (max_retries >= 0 /\ pc = "done") =>
          /\ calls >= 1
          /\ result.act \in {"return", "raise"}
          /\ result.act = "return" => result.val \in (Bodies \cup {"wrapped_text"})
          /\ result.act = "raise" => result.err \in RequestErrors
          /\ result.msg # "Request failed after all retries"
    /\ result.msg = "Request failed after all retries" =>
          (max_retries < 0 /\ calls = 0 /\ result.err = "HoudiniSwapError")
    /\ (max_retries < 0 /\ pc = "done") =>
          (calls = 0 /\ result.msg = "Request failed after all retries")

C33_Witness ==
    /\ pc = "done"
    /\ max_retries >= 1
    /\ calls = max_retries + 1
    /\ \A i \in 1 .. Len(trace) : trace[i].kind = "resp" /\ trace[i].status \in retryable_statuses
    /\ result.act = "raise"
    /\ result.err = "APIError"

PostOps ==
    {"post_cex_exchange", "post_dex_exchange", "post_dex_approve", "post_dex_confirm_tx"}

\* a 429, a 500/502/503/504, a transport failure or an unexpected exception
IsRetryableOutcome(o) ==
    \/ o.kind \in {"fail", "unexp"}
    \/ o.kind = "resp" /\ o.status \in retryable_statuses

\* C34: the retry policy is the same for every method: a POST of
\* post_cex_exchange, post_dex_exchange, post_dex_approve or
\* post_dex_confirm_tx that meets a 429, a 500/502/503/504, a transport failure
\* or an unexpected exception while attempts remain stays in flight and is
\* transmitted again from the same json map, whose entries do not change during
\* the call, so one submission makes up to max_retries + 1 transmissions.
C34_PostIsRetried ==
    /\ [](wire.op \in PostOps =>
            /\ wire.method = "POST"
            /\ Len(sent) <= max_retries + 1
            /\ \A i \in 1 .. Len(sent) : sent[i].amount = sent[1].amount
            /\ (Len(sent) >= 1 /\ Len(sent) <= max_retries /\ IsRetryableOutcome(wire.answer))
                  => (InFlight /\ body_op = wire.op)
            /\ (Len(sent) >= 1 /\ ~IsRetryableOutcome(wire.answer)) => body_op = "done")
    /\ [][(InFlight /\ Len(sent') > Len(sent)) =>
            /\ safe_json_data' = safe_json_data
            /\ sent' = Append(sent, Serialised(safe_json_data, heap))]_vars

C34_Witness ==
    /\ wire.op = "post_cex_exchange"
    /\ wire.method = "POST"
    /\ max_retries >= 1
    /\ Len(sent) = max_retries + 1
    /\ \A i \in 1 .. Len(sent) : sent[i] = sent[1]
    /\ IsRetryableOutcome(wire.answer)
    /\ body_op = "done"

\* C35: a token read that ends in an error leaves the cache mapping as it was:
\* no entry is added, overwritten or removed, and an expired entry of the key
\* stays stored; while caching is disabled no operation adds or replaces an
\* entry.
C35_FailedReadKeepsCache ==
    [][/\ (last'.op \in {"cex", "dex"} /\ last'.res.kind = "raise")
             => token_cache' = token_cache
       /\ ~cache_enabled =>
             \A k \in Keys :
                 token_cache'[k] # token_cache[k] => token_cache'[k] = NoEntry]_vars

C35_Witness ==
    /\ cache_enabled
    /\ last.op = "cex"
    /\ last.reqs = 1
    /\ last.res.kind = "raise"
    /\ token_cache[CexKey] # NoEntry
    /\ ~IsFresh(token_cache[CexKey], now, cache_ttl)

\* the arguments get_dex_tokens accepts
ValidDexArgs == { a \in DexArgs : a[1] >= 1 /\ a[2] >= 1 }

\* C36 (as claimed): the value stored under a get_dex_tokens key was fetched
\* with exactly the parameters (page, pageSize, chain sent or not sent) that
\* any call mapping to that key would send.
C36_Claim ==
    \A a \in ValidDexArgs :
        LET k == DexKey(a[1], a[2], a[3]) IN
        token_cache[k] # NoEntry => token_cache[k].params = DexParams(a[1], a[2], a[3])

(***************************************************************************)
(* Properties of concurrent cached reads.                                  *)
(***************************************************************************)
\* C37 (as claimed): several thunks of execute_parallel calling the same cached
\* read with the same parameters on an empty cache make at most one network
\* call for the key, under every interleaving.
C37_Claim == network_calls <= 1

\* C37 (amended): the cache is not synchronised: the thunks make at least one
\* network call and at most min(N, max_workers) of them, one per thunk whose
\* cache test ran before the first store; with max_workers = 1 exactly one
\* call is made, and a thunk whose cache test runs after a store makes none.
C37_ConcurrentReads ==
    /\ [](/\ network_calls <= Min(Len(requests), max_workers)
          /\ (mainpc = "returned" /\ Len(requests) >= 1) => network_calls >= 1
          /\ (mainpc = "returned" /\ max_workers = 1) => network_calls = 1
          /\ (mainpc = "returned") => token_cache[CexKey] # NoEntry)
    /\ [][(token_cache[CexKey] # NoEntry /\ network_calls' > network_calls) =>
             \E i \in Running : reader[i] = "missed"]_vars

C37_Witness ==
    /\ mainpc = "returned"
    /\ Len(requests) = MaxThunks
    /\ max_workers = 2
    /\ network_calls = 2

\* the match test of the polling call in progress, as the loop makes it
Matches(s) ==
    IF poll_op = "wait_for_status" THEN IsTarget(s, target_status) ELSE IsFinal(s)

\* C38: a polling call fetches the status at least once, whatever the timeout
\* is; the match is tested before the time budget, so a fetched status that
\* matches is returned even when the elapsed time is above the timeout; an
\* error of get_status ends the loop in that iteration, without a sleep, and
\* is the error the caller gets.
C38_FetchThenMatchThenTime ==
    /\ [](/\ pollpc = "done" => polls >= 1
          /\ (presult.kind = "raise" /\ presult.err \in GetStatusErrors) =>
                (pollpc = "done" /\ Len(psleeps) = polls - 1))
    /\ [][(pollpc = "loop" /\ polls' = polls + 1) =>
            \/ /\ presult' \in { PollPropagate(e) : e \in GetStatusErrors }
               /\ pollpc' = "done"
               /\ psleeps' = psleeps
               /\ status' = status
            \/ /\ status' \in TransactionStatus
               /\ Matches(status')
               /\ pollpc' = "done"
               /\ presult' = PollReturn(status')
            \/ /\ status' \in TransactionStatus
               /\ ~Matches(status')
               /\ presult'.kind # "return"]_vars

C38_Witness ==
    /\ pollpc = "done"
    /\ timeout = 0
    /\ polls = 1
    /\ elapsed > timeout
    /\ presult.kind = "return"
    /\ presult.status = status

\* FINISHED, FAILED, EXPIRED, REFUNDED and DELETED: the transaction moves no more
TerminalStatuses == final_statuses \cup {DELETED}

\* C39: wait_for_status tests only the equality with target_status: a fetched
\* terminal status other than the target neither returns nor raises early; the
\* loop sleeps poll_interval and fetches again, unless the elapsed time is
\* above the timeout, and then TimeoutError is raised.
C39_TerminalNonTargetPolls ==
    [][(/\ poll_op = "wait_for_status"
        /\ pollpc = "loop"
        /\ polls' = polls + 1
        /\ status' \in TerminalStatuses
        /\ status' # target_status
        /\ presult' \notin { PollPropagate(e) : e \in GetStatusErrors }) =>
           IF elapsed' > timeout /\ pollpc' = "done"
           THEN /\ presult' = TimeoutError(status', target_status)
                /\ psleeps' = psleeps
           ELSE /\ pollpc' = "loop"
                /\ presult' = NoPollResult
                /\ psleeps' = Append(psleeps, poll_interval)
                /\ elapsed' - poll_interval <= timeout]_vars

C39_Witness ==
    /\ poll_op = "wait_for_status"
    /\ target_status = FINISHED
    /\ status = FAILED
    /\ polls = 3
    /\ psleeps = <<poll_interval, poll_interval>>
    /\ presult = TimeoutError(FAILED, FINISHED)

(***************************************************************************)
(* What execute() and a failing setter leave behind on the builder.        *)
(***************************************************************************)
\* C40: execute() leaves every builder field as it was, whether it returns
\* or raises; a setter that raises leaves the stored value in place; and an
\* execute() that directly follows an execute() which reached the client
\* makes one submission of its own, to the same operation, with the same
\* arguments, the ones read from the builder's fields.
C40_ExecuteKeepsFields ==
    [][ /\ (lastbuild'.call = "execute" \/ lastbuild'.res.kind = "raise") =>
               builder' = builder
        /\ (/\ lastbuild.call = "execute"
            /\ lastbuild.submitted # <<>>
            /\ lastbuild'.call = "execute") =>
               /\ Len(lastbuild'.submitted) = 1
               /\ lastbuild'.submitted = lastbuild.submitted
               /\ lastbuild'.args = lastbuild.args
               /\ lastbuild'.args = ExchangeArgs(builder) ]_vars

C40_Witness ==
    /\ lastbuild.call = "execute"
    /\ lastbuild.again
    /\ lastbuild.submitted = <<"post_cex_exchange">>
    /\ lastbuild.res = Raised("APIError")
    /\ lastbuild.args.amount = Num("pos")
    /\ lastbuild.args.receiver_tag = NoneValue
    /\ lastbuild.args.route = NotPassed

====
